---- MODULE Spec2Model ----
(***************************************************************************)
(* A model of the provisioning pipeline of mathswe-ops "system":           *)
(*   - the batch executor (main/batch.rs, main/exec.rs, main/image_exec.rs)*)
(*   - the image registry (image/repository.rs, image/desktop.rs,          *)
(*     image/server.rs) and ImageOps::reinstall (image.rs)                 *)
(*   - the download engine and integrity verifier (download.rs,            *)
(*     download/hashing.rs, download/gpg.rs), with exec_cmd (cmd.rs)       *)
(*   - the image install recipes that download an artifact                 *)
(* Each part has its own specification over the shared variables:          *)
(*   SpecBatch, SpecMain, SpecLookup, SpecPath, SpecUrl, SpecDownload,     *)
(*   SpecInstall, SpecHash, SpecGpg, SpecKeyring, SpecKey, SpecCmd,        *)
(*   SpecVersion, SpecYear, SpecVsCode, SpecIde, SpecToolbox, SpecGo.      *)
(***************************************************************************)
EXTENDS Integers, Sequences, FiniteSets, TLC

VARIABLES
    \* ---- batch executor ----
    images,        \* Vec<String> given on the command line
    operation,     \* Operation of the batch
    home_set,      \* whether the HOME variable is set in the environment
    bpc,           \* position of BatchOperation::execute
    idx,           \* next element the lazy iterator will map
    ok_num,        \* BatchReport.ok_num
    failed,        \* BatchReport.failed
    attempts,      \* record of every call of the exec closure, in call order
    batch_result,
    batch_error,   \* message of the error execute returned
    printed,       \* lines written to stdout and stderr, in order  \* what execute returned
    \* ---- DownloadRequest::new ----
    url_raw,       \* the &str given to DownloadRequest::new
    url_integrity, \* the Integrity given to DownloadRequest::new
    req_result,    \* Result<DownloadRequest, DownloadRequestError>, None before the call
    net_gets,      \* requests for which a GET was issued
    \* ---- Downloader::download_blocking and the installs that call it ----
    recipe,        \* the image whose install runs, None for a bare download
    ipc,           \* index of the next step of the install
    install_result,\* what install returned
    trace,         \* steps the install has executed, in order
    dl_pc,         \* position of download_blocking
    dl_integrity,  \* req.integrity
    response,      \* the HTTP response received
    dest0,         \* the file at the destination path before the download
    dest,          \* the file at the destination path
    dl_steps,      \* steps download_blocking has executed, in order
    dl_result,     \* what download_blocking returned
    tmp_dir,       \* the directory of the install's TmpWorkingDir
    \* ---- Hash::matches ----
    h_file,        \* content of the file at file_path
    h_expected,    \* Hash.hash
    h_pc,          \* position of calculate_sha256
    h_pos,         \* bytes of the file the reader has returned
    hasher,        \* state of the Sha256 hasher
    h_reads,       \* the bytes_read of every read that returned data
    h_io_failed,   \* whether File::open or read returned an error
    h_result,      \* what matches returned
    \* ---- GpgKey::verify ----
    g_fingerprint, \* GpgKey.fingerprint
    g_stderr,      \* what gpg --verify writes to stderr
    g_exec,        \* how the gpg process ended
    g_result,      \* what verify returned
    g_stdout,      \* what gpg --fingerprint writes to stdout
    g_key_check,   \* what check_key_fingerprint returned
    \* ---- exec_cmd ----
    c_program,     \* how the program behaves when it is run
    c_pc,          \* position of exec_cmd
    c_spawns,      \* how many times the program was spawned
    c_result,      \* what exec_cmd returned
    \* ---- Repository::image_loader_from, load_image, load_config ----
    l_str,         \* the string looked up
    l_info_file,   \* state of image/<id>.json
    l_config_file, \* state of image/<id>.config.json
    l_pc,          \* position: lookup, found, done
    l_loader,      \* what image_loader_from returned
    l_reads,       \* metadata files opened, in order
    l_result,      \* what load_image or load_config returned
    \* ---- main and execute_operation (main.rs) ----
    m_operation,   \* the subcommand
    m_images,      \* its identifiers
    m_os,          \* what detect_os finds
    m_pc,          \* position: start, loop, returned, exited
    m_idx,         \* next identifier of the for loop
    m_ran,         \* the identifiers processed, with what happened
    m_exec,        \* what execute_operation returned
    m_out,         \* lines written to stdout and stderr
    m_exit,        \* how the process ended
    \* ---- SemVer, SemVerRev, SemVerVendor (package.rs) ----
    v_type,        \* the version type of the metadata field
    v_input,       \* the version string of the metadata file
    v_pc,          \* position: input, parsed, rendered, reparsed
    v_parsed,      \* what from_str returned for v_input
    v_rendered,    \* to_string of the parsed value
    v_reparsed,    \* what from_str returned for v_rendered
    \* ---- ImageInfoLoader::from, of, path (image.rs) ----
    p_args,        \* the id, root and dir the loader was made from
    p_loader,      \* the ImageInfoLoader
    p_ofs,         \* how many times of() has replaced the loader
    p_path,        \* what path() returned last
    \* ---- JetBrainsIdeImage install, uninstall (image/desktop.rs) ----
    i_id,          \* the JetBrainsIdeImageId of the image
    i_apps,        \* names of the directories under <Toolbox>/apps
    i_log,         \* the operations run on the image, with what they returned
    \* ---- VsCodeImage::install (image/desktop.rs) ----
    a_final,       \* what the HEAD request gave: the URL after the redirects, or a failure
    a_version,     \* the version of the package in vscode.json
    a_use_latest,  \* use_latest_if_version_is_old of the image configuration
    a_integrity,   \* the integrity policy of the fetch request in vscode.json
    a_pc,          \* position of install
    a_req,         \* what get_actual_download_request returned
    \* ---- Integrity::check of a Gpg policy (download.rs, download/gpg.rs) ----
    k_expected,    \* GpgKey.fingerprint
    k_served,      \* fingerprint of the key served at GpgKey.url, <<>> when curl fails
    k_keyring,     \* fingerprints of the keys of the gpg keyring, in listing order
    k_pc,          \* position of Integrity::check
    k_calls,       \* the commands run so far
    k_import,      \* how the curl | gpg --import pipeline ended
    k_list,        \* how gpg --fingerprint ended
    k_install,     \* what GpgKey::install returned
    k_check,       \* what Integrity::check returned
    \* ---- GoImage install, uninstall (image/server.rs) ----
    go_dir,        \* what is at /usr/local/go
    go_profile0,   \* ~/.profile before the first operation
    go_profile,    \* ~/.profile
    go_log,        \* the operations run, with what they did and returned
    \* ---- JetBrainsToolboxImage::uninstall (image/desktop.rs) ----
    t_init,        \* the files before uninstall
    t_autostart,   \* ~/.config/autostart/jetbrains-toolbox.desktop exists
    t_dir,         \* the Toolbox directory: whether it exists, and its entries
    t_apps,        \* the entries of Toolbox/apps
    t_appfile,     \* ~/.local/share/applications/jetbrains-toolbox.desktop exists
    t_pc,          \* position of uninstall
    t_todo,        \* the entries the loop has still to remove
    t_removed,     \* what was removed, in order
    t_result,      \* what uninstall returned
    \* ---- YearSemVer (package.rs) ----
    y_input,       \* the string given to from_str
    y_pc,          \* how far the round trip has come
    y_parsed,      \* from_str(y_input)
    y_simplified,  \* to_simplified_string() of the parsed value
    y_full,        \* to_string() of the parsed value
    y_reparsed     \* from_str(y_simplified)

batchVars ==
    <<images, operation, home_set, bpc, idx, ok_num, failed, attempts, batch_result,
      batch_error, printed>>

urlVars == <<url_raw, url_integrity, req_result, net_gets>>

dlVars == <<recipe, ipc, install_result, trace, dl_pc, dl_integrity, response, dest0, dest,
            dl_steps, dl_result, tmp_dir>>

hashVars == <<h_file, h_expected, h_pc, h_pos, hasher, h_reads, h_io_failed, h_result>>

gpgVars == <<g_fingerprint, g_stderr, g_exec, g_result, g_stdout, g_key_check>>

cmdVars == <<c_program, c_pc, c_spawns, c_result>>

lookupVars == <<l_str, l_info_file, l_config_file, l_pc, l_loader, l_reads, l_result>>

mainVars == <<m_operation, m_images, m_os, m_pc, m_idx, m_ran, m_exec, m_out, m_exit>>

versionVars == <<v_type, v_input, v_pc, v_parsed, v_rendered, v_reparsed>>

pathVars == <<p_args, p_loader, p_ofs, p_path>>

ideVars == <<i_id, i_apps, i_log>>

vscodeVars == <<a_final, a_version, a_use_latest, a_integrity, a_pc, a_req>>

keyVars == <<k_expected, k_served, k_keyring, k_pc, k_calls, k_import, k_list, k_install, k_check>>

goVars == <<go_dir, go_profile0, go_profile, go_log>>

toolboxVars ==
    <<t_init, t_autostart, t_dir, t_apps, t_appfile, t_pc, t_todo, t_removed, t_result>>

yearVars == <<y_input, y_pc, y_parsed, y_simplified, y_full, y_reparsed>>

vars == <<batchVars, urlVars, dlVars, hashVars, gpgVars, cmdVars, lookupVars, mainVars, versionVars, pathVars, ideVars, vscodeVars, keyVars, goVars, toolboxVars, yearVars>>

None == "None"

(***************************************************************************)
(* Bounds of the model.                                                    *)
(***************************************************************************)
MaxImages == 2

\* Identifier strings a user may type: known names, a case variant, a typo.
IdStrings == {"zoom", "go", "rust", "Zoom"}

(***************************************************************************)
(* Image identifiers (image/desktop.rs, image/server.rs).                  *)
(***************************************************************************)
DesktopImageId == {"Zoom", "VsCode", "JetBrainsToolbox", "IntelliJIdea", "WebStorm", "PyCharm"}

ServerImageId == {"Rust", "Go", "Sdkman", "Java", "Gradle", "Nvm", "Node", "Miniconda"}

DesktopDisplay(id) ==
    CASE id = "Zoom" -> "zoom"
      [] id = "VsCode" -> "vscode"
      [] id = "JetBrainsToolbox" -> "jetbrains-toolbox"
      [] id = "IntelliJIdea" -> "intellij-idea"
      [] id = "WebStorm" -> "webstorm"
      [] id = "PyCharm" -> "pycharm"

DesktopStrFind(s) ==
    CASE s = "zoom" -> "Zoom"
      [] s = "vscode" -> "VsCode"
      [] s = "jetbrains-toolbox" -> "JetBrainsToolbox"
      [] s = "intellij-idea" -> "IntelliJIdea"
      [] s = "webstorm" -> "WebStorm"
      [] s = "pycharm" -> "PyCharm"
      [] OTHER -> None

ServerDisplay(id) ==
    CASE id = "Rust" -> "rust"
      [] id = "Go" -> "go"
      [] id = "Sdkman" -> "sdkman"
      [] id = "Java" -> "java"
      [] id = "Gradle" -> "gradle"
      [] id = "Nvm" -> "nvm"
      [] id = "Node" -> "node"
      [] id = "Miniconda" -> "miniconda"

ServerStrFind(s) ==
    CASE s = "rust" -> "Rust"
      [] s = "go" -> "Go"
      [] s = "sdkman" -> "Sdkman"
      [] s = "java" -> "Java"
      [] s = "gradle" -> "Gradle"
      [] s = "nvm" -> "Nvm"
      [] s = "node" -> "Node"
      [] s = "miniconda" -> "Miniconda"
      [] OTHER -> None

\* ToImageId: ImageId(self.to_string())
to_image_id(family, id) ==
    IF family = "desktop" THEN DesktopDisplay(id) ELSE ServerDisplay(id)

\* The lower-case spelling of the strings looked up.
to_lowercase(s) ==
    CASE s \in {"Zoom", "ZOOM"} -> "zoom"
      [] s \in {"VsCode", "VSCODE"} -> "vscode"
      [] s \in {"Go", "GO"} -> "go"
      [] s = "Rust" -> "rust"
      [] s \in {"Miniconda", "MINICONDA"} -> "miniconda"
      [] s = "JetBrains-Toolbox" -> "jetbrains-toolbox"
      [] OTHER -> s

\* A lookup that ignores the case of the string.
image_loader_from_any_case(s) ==
    IF DesktopStrFind(to_lowercase(s)) # None
    THEN [ok |-> TRUE, family |-> "desktop", id |-> DesktopStrFind(to_lowercase(s))]
    ELSE IF ServerStrFind(to_lowercase(s)) # None
         THEN [ok |-> TRUE, family |-> "server", id |-> ServerStrFind(to_lowercase(s))]
         ELSE [ok |-> FALSE, family |-> None, id |-> None]

\* Repository::image_loader_from: desktop table first, then server table.
image_loader_from(s) ==
    IF DesktopStrFind(s) # None
    THEN [ok |-> TRUE, family |-> "desktop", id |-> DesktopStrFind(s)]
    ELSE IF ServerStrFind(s) # None
         THEN [ok |-> TRUE, family |-> "server", id |-> ServerStrFind(s)]
         ELSE [ok |-> FALSE, family |-> None, id |-> None]

\* Images built from the Os alone (ImageLoadContext::basic_image_from).
BasicImages == {"Rust", "Sdkman"}

\* LoadImage::load_image: every other image reads <id>.json first.
load_image(loader, info_ok) ==
    IF loader.family = "server" /\ loader.id \in BasicImages
    THEN TRUE
    ELSE info_ok

(***************************************************************************)
(* Metadata files of an image (image.rs, image/repository.rs).             *)
(***************************************************************************)
\* How a metadata file can be found: readable and well-formed, absent, or
\* not of the expected JSON shape.
FileStates == {"ok", "missing", "invalid"}

\* ImageInfoLoader::path
ImageInfoLoader_path(id, file_type) ==
    IF file_type = "image" THEN <<"image", id, "json">> ELSE <<"image", id, file_type, "json">>

\* ImageInfoLoader::load
ImageInfoLoader_load(file) ==
    CASE file = "ok" -> "Ok"
      [] file = "missing" -> "IoError"
      [] file = "invalid" -> "SerdeError"

LoadOk(id, op) == [kind |-> "Ok", error |-> "", id |-> id, op |-> op]

LoadErr(error, id, op) == [kind |-> "Err", error |-> error, id |-> id, op |-> op]

\* LoadImage::load_image with the files it opens.
load_image_files(loader, info_file) ==
    LET id == to_image_id(loader.family, loader.id) IN
    IF loader.family = "server" /\ loader.id \in BasicImages
    THEN [result |-> LoadOk(id, "image"), reads |-> <<>>]
    ELSE [result |-> IF ImageInfoLoader_load(info_file) = "Ok" THEN LoadOk(id, "image")
                     ELSE LoadErr(ImageInfoLoader_load(info_file), id, "image"),
          reads |-> <<ImageInfoLoader_path(id, "image")>>]

\* load_config for miniconda with the configuration file never opened.
load_config_image_only(loader, info_file, config_file) ==
    LET id == to_image_id(loader.family, loader.id) IN
    IF loader.family = "server" /\ loader.id = "Miniconda"
    THEN [result |-> IF ImageInfoLoader_load(info_file) = "Ok" THEN LoadOk(id, "config")
                     ELSE LoadErr(ImageInfoLoader_load(info_file), id, "config"),
          reads |-> <<ImageInfoLoader_path(id, "image")>>]
    ELSE [result |-> LoadErr("OperationNotImplemented", id, "config"), reads |-> <<>>]

\* LoadImage::load_config of both loaders, with the files it opens.
load_config(loader, info_file, config_file) ==
    LET id == to_image_id(loader.family, loader.id) IN
    IF loader.family = "server" /\ loader.id = "Miniconda"
    THEN IF ImageInfoLoader_load(info_file) # "Ok"
         THEN [result |-> LoadErr(ImageInfoLoader_load(info_file), id, "config"),
               reads |-> <<ImageInfoLoader_path(id, "image")>>]
         ELSE [result |-> IF ImageInfoLoader_load(config_file) = "Ok" THEN LoadOk(id, "config")
                          ELSE LoadErr(ImageInfoLoader_load(config_file), id, "config"),
               reads |-> <<ImageInfoLoader_path(id, "image"), ImageInfoLoader_path(id, "config")>>]
    ELSE [result |-> LoadErr("OperationNotImplemented", id, "config"), reads |-> <<>>]

(***************************************************************************)
(* Outcomes of one concrete image operation.  What the operation does to   *)
(* the machine is decided by the outside world, so the outcome is an input *)
(* of the batch; the recipes that download are modelled in SpecInstall.    *)
(***************************************************************************)
Ok == [kind |-> "Ok", cause |-> ""]

Err(cause) == [kind |-> "Err", cause |-> cause]

Panic == [kind |-> "Panic", cause |-> "called Result::unwrap() on an Err value"]

\* GoImage::install reads HOME with unwrap() after unpacking; every other
\* recipe returns a Result.
InstallOutcomes(loader, home) ==
    IF loader.family = "server" /\ loader.id = "Go" /\ ~home
    THEN {Err("install failed"), Panic}
    ELSE {Ok, Err("install failed")}

UninstallOutcomes(loader, home) ==
    {Ok, Err("uninstall failed")}

(***************************************************************************)
(* ImageOps::reinstall (image.rs): uninstall()?; install()?; Ok(())        *)
(***************************************************************************)
ImageOps_reinstall_install_anyway(un, ins) ==
    [result |-> ins,
     calls |-> <<[op |-> "uninstall", out |-> un], [op |-> "install", out |-> ins]>>]

ImageOps_reinstall(un, ins) ==
    IF un.kind # "Ok"
    THEN [result |-> un, calls |-> <<[op |-> "uninstall", out |-> un]>>]
    ELSE [result |-> ins,
          calls |-> <<[op |-> "uninstall", out |-> un], [op |-> "install", out |-> ins]>>]

\* MinicondaImageConfig::config: two conda commands, each with ?.
ConfigOutcomes == {Ok, Err("config failed")}

\* The ImageOps method the batch operation dispatches to.
ImageOps_run(op, un, ins) ==
    CASE op = "Install" -> [result |-> ins, calls |-> <<[op |-> "install", out |-> ins]>>]
      [] op = "Uninstall" -> [result |-> un, calls |-> <<[op |-> "uninstall", out |-> un]>>]
      [] op = "Reinstall" -> ImageOps_reinstall(un, ins)

\* Display of main::system::Operation.
Operation_to_string(op) ==
    CASE op = "Install" -> "install"
      [] op = "Uninstall" -> "uninstall"
      [] op = "Reinstall" -> "reinstall"
      [] op = "Config" -> "config"

\* One line written by println! (stdout) or eprintln! (stderr).
PrintLine(stream, kind, op, id, cause) ==
    [stream |-> stream, kind |-> kind, op |-> op, id |-> id, cause |-> cause, ids |-> <<>>]

\* Display of the error of Repository::image_loader_from.
not_found_msg(s) == "String ID " \o s \o " not found in the image repository"

\* Display of ImageOperationError.
ImageOperationError_to_string(err) ==
    IF err.error = "OperationNotImplemented"
    THEN "Operation " \o err.op \o " not implemented for image " \o err.id
    ELSE err.error

\* OperationContext::load_image: Ok with the loader, or Err with the message.
OperationContext_load_image(id_raw, info_file) ==
    LET loader == image_loader_from(id_raw) IN
    IF ~loader.ok
    THEN [kind |-> "Err", load |-> "NotFound", error |-> not_found_msg(id_raw)]
    ELSE LET res == load_image_files(loader, info_file).result IN
         IF res.kind = "Ok"
         THEN [kind |-> "Ok", load |-> "Ok", error |-> ""]
         ELSE [kind |-> "Err", load |-> "InfoError", error |-> ImageOperationError_to_string(res)]

\* OperationContext::load_image_ops: a failure is printed and becomes Err(id_raw).
load_image_ops(id_raw, info_file) ==
    LET res == OperationContext_load_image(id_raw, info_file) IN
    IF res.kind = "Ok"
    THEN [kind |-> "Ok", val |-> "", load |-> "Ok", cause |-> "", prints |-> <<>>]
    ELSE [kind |-> "Err", val |-> id_raw, load |-> res.load, cause |-> res.error,
          prints |-> <<PrintLine("stdout", "LoadFail", "load", id_raw, res.error)>>]

\* OperationContext::load_config: image_loader_from(id_raw)?, then
\* load_config(os).map_err(|error| error.to_string()).
OperationContext_load_config(id_raw, info_file, config_file) ==
    LET loader == image_loader_from(id_raw) IN
    IF ~loader.ok
    THEN [kind |-> "Err", val |-> not_found_msg(id_raw), load |-> "NotFound",
          cause |-> not_found_msg(id_raw), prints |-> <<>>]
    ELSE LET res == load_config(loader, info_file, config_file).result IN
         IF res.kind = "Ok"
         THEN [kind |-> "Ok", val |-> "", load |-> "Ok", cause |-> "", prints |-> <<>>]
         ELSE [kind |-> "Err", val |-> ImageOperationError_to_string(res),
               load |-> IF res.error = "OperationNotImplemented" THEN "NotImplemented"
                        ELSE "InfoError",
               cause |-> ImageOperationError_to_string(res), prints |-> <<>>]

\* ImageOpsExecution::{install, uninstall, reinstall} and the tail of
\* OperationExecution::config: the start line, the operation, then ok or err.
\* A panic of the operation is reported by the runtime on stderr.
ImageOpsExecution(op, id, run) ==
    LET start == PrintLine("stdout", "Start", Operation_to_string(op), id, "")
        last == CASE run.result.kind = "Ok" ->
                        PrintLine("stdout", "Success", Operation_to_string(op), id, "")
                  [] run.result.kind = "Err" ->
                        PrintLine("stderr", "Fail", Operation_to_string(op), id, run.result.cause)
                  [] run.result.kind = "Panic" ->
                        PrintLine("stderr", "Panic", Operation_to_string(op), id, run.result.cause)
    IN [kind |-> run.result.kind, val |-> id, load |-> "Ok", calls |-> run.calls,
        cause |-> run.result.cause, prints |-> <<start, last>>]

(***************************************************************************)
(* OperationExecution::{install, uninstall, reinstall, config}             *)
(* (main/exec.rs).  The value is what the exec closure returns, Ok(ImageId)*)
(* or Err(String) in val, with the lines it printed.                       *)
(***************************************************************************)
OperationExecution(op, id_raw, info_file, config_file, un, ins, cfg) ==
    LET loader == image_loader_from(id_raw)
        ops == IF op = "Config"
               THEN OperationContext_load_config(id_raw, info_file, config_file)
               ELSE load_image_ops(id_raw, info_file)
    IN IF ops.kind # "Ok"
       THEN [kind |-> "Err", val |-> ops.val, load |-> ops.load, calls |-> <<>>,
             cause |-> ops.cause, prints |-> ops.prints]
       ELSE ImageOpsExecution(op, to_image_id(loader.family, loader.id),
                IF op = "Config"
                THEN [result |-> cfg, calls |-> <<[op |-> "config", out |-> cfg]>>]
                ELSE ImageOps_run(op, un, ins))

(***************************************************************************)
(* BatchReport::success_fail_report (main/batch.rs)                        *)
(***************************************************************************)
success_fail_report(acc, result) ==
    IF result.kind = "Ok"
    THEN [ok_num |-> acc.ok_num + 1, failed |-> acc.failed]
    ELSE [ok_num |-> acc.ok_num, failed |-> Append(acc.failed, result.val)]

\* BatchOperation::batch_report_msg: the operation, the number of successes
\* and err_ids.len().  The source has the arms of install, uninstall and
\* reinstall; config is given the same shape.
batch_report_msg(op, report) ==
    [operation |-> Operation_to_string(op), ok_num |-> report.ok_num,
     failed_num |-> Len(report.failed)]

\* BatchOperation::batch_report_success_msg
batch_report_success_msg(op, num) ==
    [stream |-> "stdout", kind |-> "BatchOk", op |-> Operation_to_string(op), id |-> "",
     cause |-> "", ids |-> <<>>]

\* BatchOperation::batch_report_fail_msg: the failed list is printed whole.
batch_report_fail_msg(op, err_ids) ==
    [stream |-> "stdout", kind |-> "BatchFail", op |-> Operation_to_string(op), id |-> "",
     cause |-> "", ids |-> err_ids]

NoBatchError == [operation |-> "", ok_num |-> 0, failed_num |-> 0]

\* BatchOperation::print_batch_report
print_batch_report(op, report) ==
    IF report.failed = <<>>
    THEN [result |-> "Ok", error |-> NoBatchError,
          line |-> batch_report_success_msg(op, report.ok_num)]
    ELSE [result |-> "Err", error |-> batch_report_msg(op, report),
          line |-> batch_report_fail_msg(op, report.failed)]

(***************************************************************************)
(* The batch executor as a state machine.                                  *)
(***************************************************************************)
Operations == {"Install", "Uninstall", "Reinstall", "Config"}

ImageLists == UNION {[1..n -> IdStrings] : n \in 1..MaxImages}

\* No call of DownloadRequest::new has returned yet.
NoRequest == [kind |-> "None", url |-> None, integrity |-> None]

\* No TmpWorkingDir has been created.
NoTmpDir == [state |-> "none", entries |-> {}]

\* The parts of the state a specification does not use stay at these values.
IdleBatch ==
    /\ images = <<>>
    /\ operation = None
    /\ bpc = "idle"
    /\ idx = 1
    /\ ok_num = 0
    /\ failed = <<>>
    /\ attempts = <<>>
    /\ batch_result = None
    /\ batch_error = NoBatchError
    /\ printed = <<>>

IdleUrl ==
    /\ url_raw = <<>>
    /\ url_integrity = None
    /\ req_result = NoRequest
    /\ net_gets = {}

\* No install has returned yet.
NoResult == [kind |-> "None", cause |-> ""]

\* download_blocking has not returned yet.
DlNone == [kind |-> "None", error |-> "", status |-> <<>>]

NoFile == [exists |-> FALSE, content |-> <<>>]

NoResponse == [received |-> FALSE, status |-> <<>>, body |-> <<>>]

NoIntegrity == [policy |-> "None", hash |-> <<>>]

IdleDownload ==
    /\ recipe = None
    /\ ipc = 1
    /\ install_result = NoResult
    /\ trace = <<>>
    /\ dl_pc = "idle"
    /\ dl_integrity = NoIntegrity
    /\ response = NoResponse
    /\ dest0 = NoFile
    /\ dest = NoFile
    /\ dl_steps = <<>>
    /\ dl_result = DlNone
    /\ tmp_dir = NoTmpDir

\* Neither matches nor verify has returned yet.
CheckNone == [kind |-> "None", val |-> FALSE, error |-> ""]

IdleHash ==
    /\ h_file = <<>>
    /\ h_expected = <<>>
    /\ h_pc = "idle"
    /\ h_pos = 0
    /\ hasher = <<>>
    /\ h_reads = <<>>
    /\ h_io_failed = FALSE
    /\ h_result = CheckNone

IdleGpg ==
    /\ g_fingerprint = <<>>
    /\ g_stderr = <<>>
    /\ g_exec = None
    /\ g_result = CheckNone
    /\ g_stdout = <<>>
    /\ g_key_check = CheckNone

\* exec_cmd has not returned yet.
CmdNone == [kind |-> "None", cause |-> "", code |-> <<>>, stdout |-> "", stderr |-> ""]

IdleCmd ==
    /\ c_program = None
    /\ c_pc = "idle"
    /\ c_spawns = 0
    /\ c_result = CmdNone

\* image_loader_from has not returned yet.
NoLoader == [ok |-> FALSE, family |-> "", id |-> ""]

\* Neither load_image nor load_config has returned yet.
LoadNone == [kind |-> "None", error |-> "", id |-> "", op |-> ""]

IdleLookup ==
    /\ l_str = ""
    /\ l_info_file = "ok"
    /\ l_config_file = "ok"
    /\ l_pc = "idle"
    /\ l_loader = NoLoader
    /\ l_reads = <<>>
    /\ l_result = LoadNone

\* execute_operation has not returned yet.
ExecNone == [kind |-> "None", cause |-> ""]

IdleMain ==
    /\ m_operation = ""
    /\ m_images = <<>>
    /\ m_os = "Ubuntu"
    /\ m_pc = "idle"
    /\ m_idx = 1
    /\ m_ran = <<>>
    /\ m_exec = ExecNone
    /\ m_out = <<>>
    /\ m_exit = "running"

\* from_str has not returned yet.
VersionNone == [kind |-> "None", error |-> "", nums |-> <<>>, vendor |-> <<>>]

IdleVersion ==
    /\ v_type = ""
    /\ v_input = <<>>
    /\ v_pc = "idle"
    /\ v_parsed = VersionNone
    /\ v_rendered = <<>>
    /\ v_reparsed = VersionNone

\* path() has not been called yet.
NoPath == [called |-> FALSE, file_type |-> "", parts |-> <<>>]

NoInfoLoader == [id |-> "", root |-> <<>>, dir |-> <<>>, file_type |-> ""]

IdlePath ==
    /\ p_args = NoInfoLoader
    /\ p_loader = NoInfoLoader
    /\ p_ofs = 0
    /\ p_path = NoPath

IdleIde ==
    /\ i_id = ""
    /\ i_apps = {}
    /\ i_log = <<>>

NoActualRequest == [kind |-> "None", url |-> <<>>, integrity |-> NoIntegrity]

IdleVsCode ==
    /\ a_final = <<>>
    /\ a_version = <<>>
    /\ a_use_latest = FALSE
    /\ a_integrity = NoIntegrity
    /\ a_pc = "idle"
    /\ a_req = NoActualRequest

IdleKey ==
    /\ k_expected = <<>>
    /\ k_served = <<>>
    /\ k_keyring = <<>>
    /\ k_pc = "idle"
    /\ k_calls = <<>>
    /\ k_import = None
    /\ k_list = None
    /\ k_install = CheckNone
    /\ k_check = CheckNone

NoProfile == [lines |-> <<>>, terminated |-> TRUE]

IdleGo ==
    /\ go_dir = "absent"
    /\ go_profile0 = NoProfile
    /\ go_profile = NoProfile
    /\ go_log = <<>>

NoToolboxDir == [exists |-> FALSE, entries |-> {}]

NoToolboxFiles == [autostart |-> FALSE, dir |-> NoToolboxDir, apps |-> {}, appfile |-> FALSE]

IdleToolbox ==
    /\ t_init = NoToolboxFiles
    /\ t_autostart = FALSE
    /\ t_dir = NoToolboxDir
    /\ t_apps = {}
    /\ t_appfile = FALSE
    /\ t_pc = "idle"
    /\ t_todo = {}
    /\ t_removed = <<>>
    /\ t_result = NoResult

IdleYear ==
    /\ y_input = <<>>
    /\ y_pc = "idle"
    /\ y_parsed = [kind |-> "None", error |-> "", nums |-> <<>>, vendor |-> <<>>]
    /\ y_simplified = <<>>
    /\ y_full = <<>>
    /\ y_reparsed = [kind |-> "None", error |-> "", nums |-> <<>>, vendor |-> <<>>]

InitBatch ==
    /\ IdleYear
    /\ IdleToolbox
    /\ IdleGo
    /\ IdleKey
    /\ IdleVsCode
    /\ IdleIde
    /\ IdlePath
    /\ IdleVersion
    /\ IdleMain
    /\ IdleLookup
    /\ IdleCmd
    /\ IdleUrl
    /\ IdleDownload
    /\ IdleHash
    /\ IdleGpg
    /\ images \in ImageLists
    /\ operation \in Operations
    /\ home_set \in BOOLEAN
    /\ bpc = "fold"
    /\ idx = 1
    /\ ok_num = 0
    /\ failed = <<>>
    /\ attempts = <<>>
    /\ batch_result = None
    /\ batch_error = NoBatchError
    /\ printed = <<>>

\* One step of images.iter().map(exec).fold(..): the closure runs on the next
\* element and its result is folded into the report.  A panic unwinds through
\* fold and execute: nothing after it runs.
ExecItem ==
    /\ bpc = "fold"
    /\ idx <= Len(images)
    /\ \E info_file \in FileStates, config_file \in FileStates :
       LET loader == image_loader_from(images[idx]) IN
       \E un \in UninstallOutcomes(loader, home_set), ins \in InstallOutcomes(loader, home_set),
          cfg \in ConfigOutcomes :
          LET r == OperationExecution(operation, images[idx], info_file, config_file,
                                      un, ins, cfg)
              acc == success_fail_report([ok_num |-> ok_num, failed |-> failed], r)
          IN /\ attempts' = Append(attempts, [id_raw |-> images[idx], result |-> r])
             /\ printed' = printed \o [i \in 1..Len(r.prints) |->
                                          [pos |-> idx, line |-> r.prints[i]]]
             /\ IF r.kind = "Panic"
                THEN /\ bpc' = "aborted"
                     /\ UNCHANGED <<idx, ok_num, failed>>
                ELSE /\ bpc' = "fold"
                     /\ idx' = idx + 1
                     /\ ok_num' = acc.ok_num
                     /\ failed' = acc.failed
    /\ UNCHANGED <<images, operation, home_set, batch_result, batch_error>>
    /\ UNCHANGED <<urlVars, dlVars, hashVars, gpgVars, cmdVars, lookupVars, mainVars, versionVars, pathVars, ideVars, vscodeVars, keyVars, goVars, toolboxVars, yearVars>>

\* The iterator is exhausted: BatchReport is built and print_batch_report
\* prints the summary and decides what execute returns.
PrintBatchReport ==
    /\ bpc = "fold"
    /\ idx > Len(images)
    /\ LET out == print_batch_report(operation, [ok_num |-> ok_num, failed |-> failed])
       IN /\ batch_result' = out.result
          /\ batch_error' = out.error
          /\ printed' = Append(printed, [pos |-> idx, line |-> out.line])
    /\ bpc' = "done"
    /\ UNCHANGED <<images, operation, home_set, idx, ok_num, failed, attempts>>
    /\ UNCHANGED <<urlVars, dlVars, hashVars, gpgVars, cmdVars, lookupVars, mainVars, versionVars, pathVars, ideVars, vscodeVars, keyVars, goVars, toolboxVars, yearVars>>

NextBatch == ExecItem \/ PrintBatchReport

SpecBatch == InitBatch /\ [][NextBatch]_vars

(***************************************************************************)
(* DownloadRequest::new (download.rs).  A string is a sequence of          *)
(* one-character strings.  Url::parse is modelled by what it does to the   *)
(* inputs used here: it trims surrounding spaces, reads the scheme up to   *)
(* the first ':' and lowercases it, and for a scheme with an authority     *)
(* rejects an empty host, a forbidden host character and a non-numeric     *)
(* port.                                                                   *)
(***************************************************************************)
UpperAlpha == {"H", "T", "P", "S"}

LowerAlpha == {"h", "t", "p", "s", "f", "m", "x", "e", "c"}

Digits == {"1", "8"}

SchemeChars == UpperAlpha \cup LowerAlpha \cup Digits \cup {"+", "-", "."}

to_ascii_lowercase(c) ==
    CASE c = "H" -> "h"
      [] c = "T" -> "t"
      [] c = "P" -> "p"
      [] c = "S" -> "s"
      [] OTHER -> c

LowerSeq(s) == [i \in 1..Len(s) |-> to_ascii_lowercase(s[i])]

Str_https == <<"h", "t", "t", "p", "s">>

Str_http == <<"h", "t", "t", "p">>

Str_ftp == <<"f", "t", "p">>

SpecialSchemes == {Str_https, Str_http, Str_ftp}

\* The smallest index of s whose element is in the set cs, or Len(s) + 1.
FirstIn(s, cs) ==
    IF \E i \in 1..Len(s) : s[i] \in cs
    THEN CHOOSE i \in 1..Len(s) : s[i] \in cs /\ \A j \in 1..(i - 1) : s[j] \notin cs
    ELSE Len(s) + 1

\* The smallest index of s whose element is not in the set cs, or Len(s) + 1.
FirstNotIn(s, cs) ==
    IF \E i \in 1..Len(s) : s[i] \notin cs
    THEN CHOOSE i \in 1..Len(s) : s[i] \notin cs /\ \A j \in 1..(i - 1) : s[j] \in cs
    ELSE Len(s) + 1

Drop(s, n) == SubSeq(s, n + 1, Len(s))

Take(s, n) == SubSeq(s, 1, n)

\* Leading and trailing spaces are removed before parsing.
TrimSpaces(s) ==
    LET a == FirstNotIn(s, {" "})
        t == Drop(s, a - 1)
        LastNonSpace == IF \E i \in 1..Len(t) : t[i] # " "
                        THEN CHOOSE i \in 1..Len(t) : t[i] # " " /\ \A j \in (i + 1)..Len(t) : t[j] = " "
                        ELSE 0
    IN Take(t, LastNonSpace)

ParseErr(e) == [ok |-> FALSE, error |-> e, scheme |-> <<>>, host |-> <<>>]

\* host[:port] of an authority; a special scheme needs a host.
ParseAuthority(scheme, auth) ==
    LET c == FirstIn(auth, {":"})
        host == Take(auth, c - 1)
        port == Drop(auth, c)
    IN IF host = <<>> /\ scheme \in SpecialSchemes THEN ParseErr("EmptyHost")
       ELSE IF \E i \in 1..Len(host) : host[i] = " " THEN ParseErr("InvalidDomainCharacter")
       ELSE IF \E i \in 1..Len(port) : port[i] \notin Digits THEN ParseErr("InvalidPort")
       ELSE [ok |-> TRUE, error |-> None, scheme |-> scheme, host |-> host]

\* reqwest::Url::parse with no base URL.
UrlParse(raw) ==
    LET s == TrimSpaces(raw)
        k == FirstNotIn(s, SchemeChars)
    IN IF k = 1 \/ k > Len(s) \/ s[k] # ":" \/ s[1] \notin (UpperAlpha \cup LowerAlpha)
       THEN ParseErr("RelativeUrlWithoutBase")
       ELSE LET scheme == LowerSeq(Take(s, k - 1))
                rest == Drop(s, k)
            IN IF scheme \in SpecialSchemes
               THEN LET r == Drop(rest, FirstNotIn(rest, {"/"}) - 1)
                    IN ParseAuthority(scheme, Take(r, FirstIn(r, {"/"}) - 1))
               ELSE IF Len(rest) >= 2 /\ rest[1] = "/" /\ rest[2] = "/"
                    THEN LET r == Drop(rest, 2)
                         IN ParseAuthority(scheme, Take(r, FirstIn(r, {"/"}) - 1))
                    ELSE [ok |-> TRUE, error |-> None, scheme |-> scheme, host |-> <<>>]

\* The check of the superseded download/download.rs: url.starts_with("https://").
DownloadRequest_new_starts_with(raw, integrity) ==
    IF Len(raw) >= 8 /\ Take(raw, 8) = Str_https \o <<":", "/", "/">>
    THEN [kind |-> "Ok", url |-> [ok |-> TRUE, error |-> None, scheme |-> Str_https, host |-> Drop(raw, 8)],
          integrity |-> integrity]
    ELSE [kind |-> "InsecureProtocol", url |-> UrlParse(raw), integrity |-> None]

\* DownloadRequest::new
DownloadRequest_new(raw, integrity) ==
    LET url == UrlParse(raw) IN
    IF ~url.ok
    THEN [kind |-> "InvalidUrl", url |-> url, integrity |-> None]
    ELSE IF url.scheme = Str_https
         THEN [kind |-> "Ok", url |-> url, integrity |-> integrity]
         ELSE [kind |-> "InsecureProtocol", url |-> url, integrity |-> None]

\* Raw strings tried: scheme, separator and remainder in every combination.
RawSchemes ==
    {Str_https, <<"H", "T", "T", "P", "S">>, <<" ">> \o Str_https, Str_http, Str_ftp,
     Str_https \o <<"x">>, <<"m">>, <<"1", "h">>, <<>>}

RawSeparators == {<<":", "/", "/">>, <<":">>, <<":", "/">>, <<>>}

RawRemainders ==
    {<<>>, <<"e">>, <<"e", "/", "p">>, <<"e", " ", "c">>, <<"e", ":", "x">>, <<"e", ":", "8">>}

UrlRaws == {a \o b \o c : a \in RawSchemes, b \in RawSeparators, c \in RawRemainders}

Integrities == {"Hash", "Gpg", "None"}

InitUrl ==
    /\ IdleBatch
    /\ IdleYear
    /\ IdleToolbox
    /\ IdleGo
    /\ IdleKey
    /\ IdleVsCode
    /\ IdleIde
    /\ IdlePath
    /\ IdleVersion
    /\ IdleMain
    /\ IdleLookup
    /\ IdleCmd
    /\ IdleDownload
    /\ IdleHash
    /\ IdleGpg
    /\ home_set = TRUE
    /\ url_raw \in UrlRaws
    /\ url_integrity \in Integrities
    /\ req_result = NoRequest
    /\ net_gets = {}

NewRequest ==
    /\ req_result = NoRequest
    /\ bpc = "idle"
    /\ req_result' = DownloadRequest_new(url_raw, url_integrity)
    /\ UNCHANGED <<url_raw, url_integrity, net_gets>>
    /\ UNCHANGED <<batchVars, dlVars, hashVars, gpgVars, cmdVars, lookupVars, mainVars, versionVars, pathVars, ideVars, vscodeVars, keyVars, goVars, toolboxVars, yearVars>>

\* Downloader::download_blocking starts from a DownloadRequest value:
\* blocking::get(self.req.url).
IssueGet ==
    /\ req_result.kind = "Ok"
    /\ net_gets' = net_gets \cup {req_result.url}
    /\ req_result.url \notin net_gets
    /\ UNCHANGED <<url_raw, url_integrity, req_result>>
    /\ UNCHANGED <<batchVars, dlVars, hashVars, gpgVars, cmdVars, lookupVars, mainVars, versionVars, pathVars, ideVars, vscodeVars, keyVars, goVars, toolboxVars, yearVars>>

NextUrl == NewRequest \/ IssueGet

SpecUrl == InitUrl /\ [][NextUrl]_vars

\* C4: DownloadRequest::new succeeds exactly for the URLs that parse and whose
\* scheme is https, fails with InsecureProtocol for every URL that parses with
\* another scheme and with InvalidUrl for every string that does not parse;
\* a request keeps the integrity policy it was given, and a GET is only ever
\* issued to an https URL of a request that was constructed.
C4_HttpsOnlyRequests ==
    /\ req_result # NoRequest =>
        LET u == UrlParse(url_raw) IN
        /\ (req_result.kind = "Ok") <=> (u.ok /\ u.scheme = Str_https)
        /\ (req_result.kind = "InsecureProtocol") <=> (u.ok /\ u.scheme # Str_https)
        /\ (req_result.kind = "InvalidUrl") <=> ~u.ok
        /\ req_result.kind = "Ok" => req_result.integrity = url_integrity /\ req_result.url = u
    /\ \A g \in net_gets :
        /\ g.ok
        /\ g.scheme = Str_https
        /\ req_result.kind = "Ok" /\ g = req_result.url

\* An https URL written in upper case was accepted and fetched.
C4_Witness ==
    /\ url_raw = <<"H", "T", "T", "P", "S", ":", "/", "/", "e">>
    /\ req_result.kind = "Ok"
    /\ net_gets # {}

(***************************************************************************)
(* Hash (download/hashing.rs).  A file is a sequence of bytes.  SHA-256 is *)
(* idealised as a collision-free digest: the hasher state is the message   *)
(* absorbed so far, and finalize produces one digest byte per message      *)
(* byte.  format!("{:x}") writes every digest byte as two lower-case       *)
(* hexadecimal digits.                                                     *)
(***************************************************************************)
Bytes == {"a", "b"}

MaxFileLen == 2

Contents == UNION {[1..n -> Bytes] : n \in 0..MaxFileLen}

Sha256_new == <<>>

\* hasher.update with the bytes absorbed before the chunk forgotten.
Sha256_update_last_chunk(state, chunk) == chunk

\* hasher.update(chunk)
Sha256_update(state, chunk) == state \o chunk

DigestByte(b) ==
    CASE b = "a" -> 10
      [] b = "b" -> 171

Sha256_finalize(state) == [i \in 1..Len(state) |-> DigestByte(state[i])]

LowerHexDigits ==
    <<"0", "1", "2", "3", "4", "5", "6", "7", "8", "9", "a", "b", "c", "d", "e", "f">>

UpperHexDigits ==
    <<"0", "1", "2", "3", "4", "5", "6", "7", "8", "9", "A", "B", "C", "D", "E", "F">>

\* The digest written with the digits ds, two per byte.
HexWith(ds, digest) ==
    [i \in 1..(2 * Len(digest)) |->
        IF i % 2 = 1 THEN ds[(digest[(i + 1) \div 2] \div 16) + 1]
                     ELSE ds[(digest[i \div 2] % 16) + 1]]

\* format!("{:x}", hash)
LowerHex(digest) == HexWith(LowerHexDigits, digest)

\* calculate_sha256 of a file that is read to its end without an error.
Sha256Hex(content) == LowerHex(Sha256_finalize(Sha256_update(Sha256_new, content)))

\* Hash.matches on a readable file: self.hash == file_hash.
Hash_matches(hash, content) == hash = Sha256Hex(content)

\* Expected hashes: the digest of every non-empty content, in lower case and in upper case.
ExpectedHashes ==
    {Sha256Hex(c) : c \in Contents \ {<<>>}}
        \cup {HexWith(UpperHexDigits, Sha256_finalize(c)) : c \in Contents \ {<<>>}}

(***************************************************************************)
(* Downloader::download_blocking (download.rs): GET, status check,         *)
(* File::create_new, copy of the body, integrity check.                    *)
(***************************************************************************)
Statuses == {200, 204, 304, 404, 500}

\* StatusCode::is_success with every status taken for a success.
is_success_always(status) == TRUE

\* StatusCode::is_success
is_success(status) == status >= 200 /\ status < 300

DlOk == [kind |-> "Ok", error |-> "", status |-> <<>>]

\* io::Error::new(ErrorKind::Other, msg); status holds the status code the
\* message was formatted with, if any.
io_err(error, status) == [kind |-> "Err", error |-> error, status |-> status]

\* File::create, which truncates an existing file.
to_file_truncate(file, io_ok) ==
    IF io_ok THEN [kind |-> "Ok", error |-> "", file |-> [exists |-> TRUE, content |-> <<>>]]
    ELSE [kind |-> "Err", error |-> "PermissionDenied", file |-> file]

\* Downloader::to_file: File::create_new(&self.path)
to_file(file, io_ok) ==
    IF file.exists THEN [kind |-> "Err", error |-> "AlreadyExists", file |-> file]
    ELSE IF io_ok THEN [kind |-> "Ok", error |-> "", file |-> [exists |-> TRUE, content |-> <<>>]]
         ELSE [kind |-> "Err", error |-> "PermissionDenied", file |-> file]

CheckOk(b) == [kind |-> "Ok", val |-> b, error |-> ""]

CheckErr(e) == [kind |-> "Err", val |-> FALSE, error |-> e]

\* What GpgKey::verify can return.
VerifyOutcomes == {CheckOk(TRUE), CheckOk(FALSE), CheckErr("gpg --verify failed")}

\* Integrity::check
Integrity_check(integrity, file, read_ok, key_installed, verified) ==
    CASE integrity.policy = "Hash" ->
            IF read_ok /\ file.exists THEN CheckOk(Hash_matches(integrity.hash, file.content))
            ELSE CheckErr("io error")
      [] integrity.policy = "Gpg" ->
            IF key_installed THEN verified ELSE CheckErr("gpg key install failed")
      [] integrity.policy = "None" -> CheckOk(TRUE)

\* The last closure with a false check taken for a pass.
integrity_verdict_lenient(check) ==
    IF check.kind = "Err" THEN io_err(check.error, <<>>) ELSE DlOk

\* The last closure of download_blocking: map_err(io_err), then the check flag.
integrity_verdict(check) ==
    IF check.kind = "Err" THEN io_err(check.error, <<>>)
    ELSE IF check.val THEN DlOk
         ELSE io_err("failed integrity check", <<>>)

DlIntegrities ==
    {[policy |-> "Hash", hash |-> h] : h \in ExpectedHashes}
        \cup {[policy |-> "Gpg", hash |-> <<>>], NoIntegrity}

DlStep(step, kind, val, error) == [step |-> step, kind |-> kind, val |-> val, error |-> error]

(***************************************************************************)
(* The installs that download a file (image/desktop.rs, image/server.rs).  *)
(* An install is the sequence of its fallible steps; every step but the    *)
(* HOME unwrap of the Go install returns its error with `?`.               *)
(***************************************************************************)
Step(k, name, on_file, needs_home) ==
    [k |-> k, name |-> name, on_file |-> on_file, needs_home |-> needs_home]

Recipes == {"zoom", "vscode", "jetbrains-toolbox", "jetbrains-ide", "go", "miniconda"}

ZoomInstall ==
    << Step("tmp", "TmpWorkingDir::new", FALSE, FALSE),
       Step("download", "download_blocking", FALSE, FALSE),
       Step("cmd", "sudo apt-get --yes install <file>", TRUE, FALSE),
       Step("cmd", "sudo apt-get --fix-broken --yes install", FALSE, FALSE) >>

VsCodeInstall ==
    << Step("tmp", "TmpWorkingDir::new", FALSE, FALSE),
       Step("actual_request", "get_actual_download_request", FALSE, FALSE),
       Step("download", "download_blocking", FALSE, FALSE),
       Step("cmd", "sudo apt-get --yes install <file>", TRUE, FALSE) >>

JetBrainsToolboxInstall ==
    << Step("cmd", "sudo apt-get install libfuse2", FALSE, FALSE),
       Step("tmp", "TmpWorkingDir::new", FALSE, FALSE),
       Step("download", "download_blocking", FALSE, FALSE),
       Step("cmd", "tar -xvf <file> --directory <tmp>", TRUE, FALSE),
       Step("step", "last line of the tar output", TRUE, FALSE),
       Step("cmd", "<tmp>/<installer>", TRUE, FALSE) >>

JetBrainsIdeInstall ==
    << Step("step", "is_jetbrains_toolbox_installed", FALSE, TRUE),
       Step("tmp", "TmpWorkingDir::new", FALSE, FALSE),
       Step("download", "download_blocking", FALSE, FALSE),
       Step("home_var", "env::var(HOME)", FALSE, TRUE),
       Step("cmd", "tar -xf <file> --directory <tmp>", TRUE, FALSE),
       Step("cmd", "bash -c tar -tf <file> | ...", TRUE, FALSE),
       Step("step", "fs::rename", TRUE, FALSE),
       Step("step", "restart_jetbrains_toolbox", FALSE, TRUE) >>

GoInstall ==
    << Step("cmd", "sudo rm -rf /usr/local/go", FALSE, FALSE),
       Step("tmp", "TmpWorkingDir::new", FALSE, FALSE),
       Step("download", "download_blocking", FALSE, FALSE),
       Step("cmd", "sudo tar -C /usr/local -xzf <file>", TRUE, FALSE),
       Step("home_unwrap", "env::var(HOME).unwrap()", FALSE, TRUE),
       Step("step", "append to ~/.profile", FALSE, FALSE),
       Step("cmd", "bash -c source ~/.profile && go version", FALSE, FALSE) >>

MinicondaInstall ==
    << Step("tmp", "TmpWorkingDir::new", FALSE, FALSE),
       Step("download", "download_blocking", FALSE, FALSE),
       Step("home_var", "env::var(HOME)", FALSE, TRUE),
       Step("cmd", "bash <file> -b -u -p ~/miniconda3", TRUE, FALSE),
       Step("cmd", "conda init bash", FALSE, FALSE),
       Step("cmd", "conda init zsh", FALSE, FALSE) >>

Steps(r) ==
    CASE r = "zoom" -> ZoomInstall
      [] r = "vscode" -> VsCodeInstall
      [] r = "jetbrains-toolbox" -> JetBrainsToolboxInstall
      [] r = "jetbrains-ide" -> JetBrainsIdeInstall
      [] r = "go" -> GoInstall
      [] r = "miniconda" -> MinicondaInstall

\* The integrity policy of the fetch request each image is loaded with.
RecipeIntegrities(r) ==
    CASE r = "zoom" -> {[policy |-> "Gpg", hash |-> <<>>]}
      [] r = "go" -> {NoIntegrity}
      [] OTHER -> {[policy |-> "Hash", hash |-> h] : h \in ExpectedHashes}

(***************************************************************************)
(* TmpWorkingDir (tmp.rs): a tempfile::TempDir created with the prefix     *)
(* mathswe-ops_.  The directory is new, so it is empty; dropping the value *)
(* removes the directory with everything in it.                            *)
(***************************************************************************)
\* TmpWorkingDir::new returned Ok.
TmpWorkingDir_new == [state |-> "exists", entries |-> {}]

\* A file or directory is written at tmp.join(..).
TmpWorkingDir_add(dir, entry) == [dir EXCEPT !.entries = @ \cup {entry}]

\* A TmpWorkingDir that is never dropped: the directory stays.
TmpWorkingDir_leak(dir) == dir

\* The drop of the TempDir field when the owner goes out of scope.
TmpWorkingDir_drop(dir) ==
    IF dir.state = "exists" THEN [state |-> "removed", entries |-> {}] ELSE dir

\* The commands that unpack the downloaded archive into the directory.
ExtractsToTmp == {"tar -xvf <file> --directory <tmp>", "tar -xf <file> --directory <tmp>"}

\* download_blocking().ok(): the error of the download is dropped.
after_download_ignored(res) == Ok

\* download_blocking().map_err(|error| error.to_string())?
after_download(res) == IF res.kind = "Err" THEN Err(res.error) ELSE Ok

Running == recipe # None /\ install_result = NoResult /\ ipc <= Len(Steps(recipe))

CurStep == Steps(recipe)[ipc]

\* The step returned out: `?` returns an error, a panic unwinds, and Ok(())
\* follows the last step.
\* The binding `tmp` goes out of scope with it: its TempDir is dropped.
AdvanceWith(out, dir) ==
    IF out.kind = "Ok"
    THEN /\ ipc' = ipc + 1
         /\ install_result' = IF ipc = Len(Steps(recipe)) THEN Ok ELSE NoResult
         /\ tmp_dir' = IF ipc = Len(Steps(recipe)) THEN TmpWorkingDir_drop(dir) ELSE dir
    ELSE /\ ipc' = ipc
         /\ install_result' = out
         /\ tmp_dir' = TmpWorkingDir_drop(dir)

Advance(out) == AdvanceWith(out, tmp_dir)

Executed(st, out) == Append(trace, [name |-> st.name, on_file |-> st.on_file, kind |-> out.kind])

InstallFrame == UNCHANGED <<recipe, dl_pc, dl_integrity, response, dest0, dest, dl_steps, dl_result>>

\* exec_cmd(...).map_err(|error| error.to_string())?
RunCmd ==
    /\ Running
    /\ CurStep.k = "cmd"
    /\ \E out \in {Ok, Err("UnsuccessfulStatus")}, written \in BOOLEAN :
        /\ written <=> (CurStep.name \in ExtractsToTmp /\ (out.kind = "Ok" \/ written))
        /\ trace' = Executed(CurStep, out)
        /\ AdvanceWith(out, IF written THEN TmpWorkingDir_add(tmp_dir, "extracted") ELSE tmp_dir)
    /\ InstallFrame
    /\ UNCHANGED <<batchVars, urlVars, hashVars, gpgVars, cmdVars, lookupVars, mainVars, versionVars, pathVars, ideVars, vscodeVars, keyVars, goVars, toolboxVars, yearVars>>

\* A fallible step that is not a command of its own; some read HOME first.
RunStep ==
    /\ Running
    /\ CurStep.k = "step"
    /\ \E out \in {Ok, Err("step failed")} :
        /\ (CurStep.needs_home /\ ~home_set) => out.kind = "Err"
        /\ trace' = Executed(CurStep, out)
        /\ AdvanceWith(out, IF CurStep.name = "fs::rename" /\ out.kind = "Ok"
                            THEN [tmp_dir EXCEPT !.entries = @ \ {"extracted"}]
                            ELSE tmp_dir)
    /\ InstallFrame
    /\ UNCHANGED <<batchVars, urlVars, hashVars, gpgVars, cmdVars, lookupVars, mainVars, versionVars, pathVars, ideVars, vscodeVars, keyVars, goVars, toolboxVars, yearVars>>

\* TmpWorkingDir::new().map_err(|error| error.to_string())?
NewTmpDir ==
    /\ Running
    /\ CurStep.k = "tmp"
    /\ \E out \in {Ok, Err("tempdir failed")} :
        /\ trace' = Executed(CurStep, out)
        /\ AdvanceWith(out, IF out.kind = "Ok" THEN TmpWorkingDir_new ELSE tmp_dir)
    /\ InstallFrame
    /\ UNCHANGED <<batchVars, urlVars, hashVars, gpgVars, cmdVars, lookupVars, mainVars, versionVars, pathVars, ideVars, vscodeVars, keyVars, goVars, toolboxVars, yearVars>>

\* env::var("HOME").map_err(|error| error.to_string())?
ReadHome ==
    /\ Running
    /\ CurStep.k = "home_var"
    /\ LET out == IF home_set THEN Ok ELSE Err("environment variable not found") IN
        /\ trace' = Executed(CurStep, out)
        /\ Advance(out)
    /\ InstallFrame
    /\ UNCHANGED <<batchVars, urlVars, hashVars, gpgVars, cmdVars, lookupVars, mainVars, versionVars, pathVars, ideVars, vscodeVars, keyVars, goVars, toolboxVars, yearVars>>

\* env::var("HOME").unwrap()
UnwrapHome ==
    /\ Running
    /\ CurStep.k = "home_unwrap"
    /\ LET out == IF home_set THEN Ok ELSE Panic IN
        /\ trace' = Executed(CurStep, out)
        /\ Advance(out)
    /\ InstallFrame
    /\ UNCHANGED <<batchVars, urlVars, hashVars, gpgVars, cmdVars, lookupVars, mainVars, versionVars, pathVars, ideVars, vscodeVars, keyVars, goVars, toolboxVars, yearVars>>

\* VsCodeImage::get_actual_download_request: the redirect target names the
\* expected version, or the latest version is taken without a hash, or the
\* install stops.
ActualRequest ==
    /\ Running
    /\ CurStep.k = "actual_request"
    /\ \E final \in {"HeadFailed", "ExpectedVersion", "LatestAllowed", "LatestRefused"} :
        LET out == IF final \in {"ExpectedVersion", "LatestAllowed"} THEN Ok
                   ELSE Err("Unable to fetch required version") IN
        /\ dl_integrity' = IF final = "LatestAllowed" THEN NoIntegrity ELSE dl_integrity
        /\ trace' = Executed(CurStep, out)
        /\ Advance(out)
    /\ UNCHANGED <<recipe, dl_pc, response, dest0, dest, dl_steps, dl_result>>
    /\ UNCHANGED <<batchVars, urlVars, hashVars, gpgVars, cmdVars, lookupVars, mainVars, versionVars, pathVars, ideVars, vscodeVars, keyVars, goVars, toolboxVars, yearVars>>

\* Downloader::from(req, &tmp), then the call of download_blocking.
StartDownload ==
    /\ Running
    /\ CurStep.k = "download"
    /\ dl_pc = "idle"
    /\ dl_pc' = "get"
    /\ trace' = Executed(CurStep, Ok)
    /\ UNCHANGED <<recipe, ipc, install_result, dl_integrity, response, dest0, dest, dl_steps,
                   dl_result, tmp_dir>>
    /\ UNCHANGED <<batchVars, urlVars, hashVars, gpgVars, cmdVars, lookupVars, mainVars, versionVars, pathVars, ideVars, vscodeVars, keyVars, goVars, toolboxVars, yearVars>>

\* download_blocking returns res; inside an install the caller applies `?`.
DlReturn(res) ==
    /\ dl_result' = res
    /\ dl_pc' = "returned"
    /\ IF recipe = None
       THEN UNCHANGED <<ipc, install_result, tmp_dir>>
       ELSE Advance(after_download(res))

DlContinueWith(pc, dir) ==
    /\ dl_pc' = pc
    /\ tmp_dir' = dir
    /\ UNCHANGED <<dl_result, ipc, install_result>>

DlContinue(pc) == DlContinueWith(pc, tmp_dir)

\* blocking::get(url) and the status check.
BlockingGet ==
    /\ dl_pc = "get"
    /\ \/ /\ dl_steps' = Append(dl_steps, DlStep("get", "Err", FALSE, "Failed to fetch"))
          /\ DlReturn(io_err("Failed to fetch", <<>>))
          /\ UNCHANGED response
       \/ \E st \in Statuses, body \in Contents :
          /\ response' = [received |-> TRUE, status |-> <<st>>, body |-> body]
          /\ dl_steps' = Append(dl_steps, DlStep("get", "Ok", TRUE, ""))
          /\ IF is_success(st) THEN DlContinue("to_file")
             ELSE DlReturn(io_err("Failed to download", <<st>>))
    /\ UNCHANGED <<recipe, trace, dl_integrity, dest0, dest>>
    /\ UNCHANGED <<batchVars, urlVars, hashVars, gpgVars, cmdVars, lookupVars, mainVars, versionVars, pathVars, ideVars, vscodeVars, keyVars, goVars, toolboxVars, yearVars>>

\* let mut file = self.to_file()?
ToFile ==
    /\ dl_pc = "to_file"
    /\ \E io_ok \in BOOLEAN :
        LET r == to_file(dest, io_ok) IN
        /\ dest' = r.file
        /\ dl_steps' = Append(dl_steps, DlStep("create_new", r.kind, r.kind = "Ok", r.error))
        /\ IF r.kind = "Ok"
           THEN DlContinueWith("copy", IF recipe = None THEN tmp_dir
                                       ELSE TmpWorkingDir_add(tmp_dir, "download"))
           ELSE DlReturn(io_err(r.error, <<>>))
    /\ UNCHANGED <<recipe, trace, dl_integrity, response, dest0>>
    /\ UNCHANGED <<batchVars, urlVars, hashVars, gpgVars, cmdVars, lookupVars, mainVars, versionVars, pathVars, ideVars, vscodeVars, keyVars, goVars, toolboxVars, yearVars>>

\* A copy that leaves no file behind.
copy_to_discarding(body, n) == [exists |-> FALSE, content |-> <<>>]

\* The file after res.copy_to(&mut file) has written n bytes of the body.
copy_to(body, n) == [exists |-> TRUE, content |-> Take(body, n)]

\* res.copy_to(&mut file): the body is written up to the point of a failure.
CopyTo ==
    /\ dl_pc = "copy"
    /\ \E n \in 0..Len(response.body), complete \in BOOLEAN :
        /\ complete => n = Len(response.body)
        /\ dest' = copy_to(response.body, n)
        /\ IF complete
           THEN /\ dl_steps' = Append(dl_steps, DlStep("copy_to", "Ok", TRUE, ""))
                /\ DlContinue("check")
           ELSE /\ dl_steps' = Append(dl_steps, DlStep("copy_to", "Err", FALSE, "Failed to copy file"))
                /\ DlReturn(io_err("Failed to copy file", <<>>))
    /\ UNCHANGED <<recipe, trace, dl_integrity, response, dest0>>
    /\ UNCHANGED <<batchVars, urlVars, hashVars, gpgVars, cmdVars, lookupVars, mainVars, versionVars, pathVars, ideVars, vscodeVars, keyVars, goVars, toolboxVars, yearVars>>

\* self.req.integrity.check(path) and the verdict on it.
IntegrityCheck ==
    /\ dl_pc = "check"
    /\ \E read_ok \in BOOLEAN, key_installed \in BOOLEAN, verified \in VerifyOutcomes :
        LET check == Integrity_check(dl_integrity, dest, read_ok, key_installed, verified) IN
        /\ dl_steps' = Append(dl_steps, DlStep("check", check.kind, check.val, check.error))
        /\ DlReturn(integrity_verdict(check))
    /\ UNCHANGED <<recipe, trace, dl_integrity, response, dest0, dest>>
    /\ UNCHANGED <<batchVars, urlVars, hashVars, gpgVars, cmdVars, lookupVars, mainVars, versionVars, pathVars, ideVars, vscodeVars, keyVars, goVars, toolboxVars, yearVars>>

ExistingFiles == {[exists |-> TRUE, content |-> c] : c \in Contents}

\* A download on its own: Downloader::new(req, path) with any path.
InitDownload ==
    /\ IdleBatch
    /\ IdleYear
    /\ IdleToolbox
    /\ IdleGo
    /\ IdleKey
    /\ IdleVsCode
    /\ IdleIde
    /\ IdlePath
    /\ IdleVersion
    /\ IdleMain
    /\ IdleLookup
    /\ IdleCmd
    /\ IdleUrl
    /\ IdleHash
    /\ IdleGpg
    /\ home_set = TRUE
    /\ recipe = None
    /\ ipc = 1
    /\ install_result = NoResult
    /\ trace = <<>>
    /\ dl_pc = "get"
    /\ dl_integrity \in DlIntegrities
    /\ response = NoResponse
    /\ dest0 \in {NoFile} \cup ExistingFiles
    /\ dest = dest0
    /\ dl_steps = <<>>
    /\ dl_result = DlNone
    /\ tmp_dir = NoTmpDir

NextDownload == BlockingGet \/ ToFile \/ CopyTo \/ IntegrityCheck

SpecDownload == InitDownload /\ [][NextDownload]_vars

\* An install: the destination is a file name in a fresh temporary directory.
InitInstall ==
    /\ IdleBatch
    /\ IdleYear
    /\ IdleToolbox
    /\ IdleGo
    /\ IdleKey
    /\ IdleVsCode
    /\ IdleIde
    /\ IdlePath
    /\ IdleVersion
    /\ IdleMain
    /\ IdleLookup
    /\ IdleCmd
    /\ IdleUrl
    /\ IdleHash
    /\ IdleGpg
    /\ home_set \in BOOLEAN
    /\ recipe \in Recipes
    /\ ipc = 1
    /\ install_result = NoResult
    /\ trace = <<>>
    /\ dl_pc = "idle"
    /\ dl_integrity \in RecipeIntegrities(recipe)
    /\ response = NoResponse
    /\ dest0 = NoFile
    /\ dest = NoFile
    /\ dl_steps = <<>>
    /\ dl_result = DlNone
    /\ tmp_dir = NoTmpDir

NextInstall ==
    \/ RunCmd
    \/ RunStep
    \/ NewTmpDir
    \/ ReadHome
    \/ UnwrapHome
    \/ ActualRequest
    \/ StartDownload
    \/ BlockingGet
    \/ ToFile
    \/ CopyTo
    \/ IntegrityCheck

SpecInstall == InitInstall /\ [][NextInstall]_vars

(***************************************************************************)
(* Properties of the download and of the installs that call it.            *)
(***************************************************************************)
StepsNamed(name) == {i \in 1..Len(dl_steps) : dl_steps[i].step = name}

\* C5: download_blocking returns Ok only after, in this order, a response
\* with a 2xx status, the creation of a file that did not exist, the copy of
\* the whole body into it, and an integrity check that returned true (for a
\* hash policy, the expected hash is the digest of the body); a check that
\* returned false gives the integrity-check error and a check that returned
\* an error gives that error.
C5_SuccessNeedsStatusFileAndIntegrity ==
    /\ dl_result.kind = "Ok" =>
        /\ Len(dl_steps) = 4
        /\ dl_steps[1] = DlStep("get", "Ok", TRUE, "")
        /\ response.received
        /\ response.status[1] \in 200..299
        /\ dl_steps[2] = DlStep("create_new", "Ok", TRUE, "")
        /\ ~dest0.exists
        /\ dl_steps[3] = DlStep("copy_to", "Ok", TRUE, "")
        /\ dest = [exists |-> TRUE, content |-> response.body]
        /\ dl_steps[4] = DlStep("check", "Ok", TRUE, "")
        /\ dl_integrity.policy = "Hash" => dl_integrity.hash = Sha256Hex(response.body)
    /\ \A i \in StepsNamed("check") :
        /\ i = Len(dl_steps)
        /\ dl_pc = "returned"
        /\ (dl_steps[i].kind = "Ok" /\ ~dl_steps[i].val) =>
                dl_result = io_err("failed integrity check", <<>>)
        /\ dl_steps[i].kind = "Err" => dl_result = io_err(dl_steps[i].error, <<>>)

\* A two-byte body with the matching hash was downloaded.
C5_Witness ==
    /\ dl_result.kind = "Ok"
    /\ dl_integrity.policy = "Hash"
    /\ response.body = <<"a", "b">>
    /\ dest.content = <<"a", "b">>

\* C7: a response whose status is not 2xx makes download_blocking return an
\* error that carries the status code, and the destination file is neither
\* created nor touched.
C7_NonSuccessStatusFailsWithoutFile ==
    (response.received /\ response.status[1] \notin 200..299) =>
        /\ dl_pc = "returned"
        /\ dl_result.kind = "Err"
        /\ dl_result.status = response.status
        /\ dest = dest0
        /\ StepsNamed("create_new") = {}

\* A 404 was received for a destination that did not exist.
C7_Witness ==
    /\ response.received
    /\ response.status = <<404>>
    /\ ~dest0.exists
    /\ ~dest.exists
    /\ dl_result.kind = "Err"

\* C8: when the destination exists at the file-creation step, the download
\* returns the creation error at that step, the existing file keeps its
\* content, and neither the copy nor the integrity check is run.
C8_ExistingDestinationNeverOverwritten ==
    dest0.exists =>
        /\ dest = dest0
        /\ StepsNamed("copy_to") = {}
        /\ StepsNamed("check") = {}
        /\ \A i \in StepsNamed("create_new") :
            /\ dl_steps[i] = DlStep("create_new", "Err", FALSE, "AlreadyExists")
            /\ i = Len(dl_steps)
            /\ dl_pc = "returned"
            /\ dl_result = io_err("AlreadyExists", <<>>)

\* The creation step was reached with a one-byte file at the destination.
C8_Witness ==
    /\ dest0 = [exists |-> TRUE, content |-> <<"a">>]
    /\ StepsNamed("create_new") # {}
    /\ dl_result.kind = "Err"

\* C6: in every install that downloads, a step that uses the downloaded file
\* has run only if download_blocking returned Ok, and an error of the
\* download is the error the install returns.
C6_NoInstallStepWithoutVerifiedDownload ==
    /\ \A i \in 1..Len(trace) : trace[i].on_file => dl_result.kind = "Ok"
    /\ dl_result.kind = "Err" => install_result = Err(dl_result.error)
    /\ install_result.kind = "Ok" => dl_result.kind = "Ok"

\* The Miniconda installer was run on the downloaded file.
C6_Witness ==
    /\ recipe = "miniconda"
    /\ dl_result.kind = "Ok"
    /\ \E i \in 1..Len(trace) : trace[i].on_file


\* File::create_new has created the destination file.
FileCreated ==
    \E i \in StepsNamed("create_new") : dl_steps[i].kind = "Ok"

\* s is the beginning of body.
IsPrefix(s, body) == Len(s) <= Len(body) /\ s = Take(body, Len(s))

\* C21: once download_blocking has created the destination file it never
\* removes it: when it returns the error of a failed copy, of an integrity
\* mismatch or of an integrity check that could not be made, the file is
\* present with the bytes that were written to it.
C21_FailedDownloadKeepsTheFile ==
    FileCreated =>
        /\ dest.exists
        /\ IsPrefix(dest.content, response.body)
        /\ (\E i \in StepsNamed("copy_to") : dl_steps[i].kind = "Ok") =>
              dest.content = response.body

\* The body was copied whole, the hash did not match, and the file is there.
C21_Witness ==
    /\ dl_result.kind = "Err"
    /\ dl_steps[Len(dl_steps)] = DlStep("check", "Ok", FALSE, "")
    /\ dest = [exists |-> TRUE, content |-> <<"a", "b">>]

\* The tmp step of the running install has returned Ok.
TmpStepDone ==
    \E i \in 1..Len(trace) : trace[i].name = "TmpWorkingDir::new" /\ trace[i].kind = "Ok"

\* C18: the temporary directory exists only after the install asked for it,
\* it is empty when TmpWorkingDir::new has just returned, and once the install
\* has left, with Ok after its last step or with the error of any step
\* (download, integrity check, extraction, installer) or by unwinding, the
\* directory and everything written into it are gone.
C18_TmpDirRemovedOnEveryExit ==
    /\ tmp_dir.state # "none" => TmpStepDone
    /\ (tmp_dir.state = "exists" /\ trace[Len(trace)].name = "TmpWorkingDir::new") =>
          tmp_dir.entries = {} /\ dest = NoFile
    /\ install_result # NoResult =>
          /\ tmp_dir.state # "exists"
          /\ tmp_dir.entries = {}
          /\ TmpStepDone => tmp_dir.state = "removed"

\* An install that downloaded the archive, unpacked part of it into the
\* directory and then failed has left no directory behind.
C18_Witness ==
    /\ install_result.kind = "Err"
    /\ tmp_dir.state = "removed"
    /\ dl_result.kind = "Ok"
    /\ dest.exists
    /\ trace[Len(trace)].name \in ExtractsToTmp
    /\ trace[Len(trace)].kind = "Err"

\* The steps of the installs that read HOME.
StepsThatNeedHome ==
    UNION {{Steps(r)[i].name : i \in {j \in 1..Len(Steps(r)) : Steps(r)[j].needs_home}} :
              r \in Recipes}

\* C19: with HOME unset, a step that needs it returns an error, which the
\* install returns as its Err for that identifier; no step ends the process
\* by a panic.  (The installs without such a step are the same with and
\* without HOME: their steps do not read home_set.)
C19_HomeUnsetIsAnOrdinaryError ==
    ~home_set =>
        /\ install_result.kind # "Panic"
        /\ \A i \in 1..Len(trace) :
              /\ trace[i].kind # "Panic"
              /\ trace[i].name \in StepsThatNeedHome => trace[i].kind = "Err"

\* What holds of every install but the one of Go.
HomeUnsetIsAnOrdinaryErrorButForGo ==
    recipe # "go" => C19_HomeUnsetIsAnOrdinaryError

(***************************************************************************)
(* Hash::matches as a process: File::open, the read loop of                *)
(* calculate_sha256 over a buffer of BufferSize bytes (1024 in the source, *)
(* scaled down here), finalize, and the comparison with the expected hash. *)
(***************************************************************************)
BufferSize == 2

MaxHashFileLen == 3

HashFiles == UNION {[1..n -> Bytes] : n \in 0..MaxHashFileLen}

\* Expected hashes: the digest of every file, written in lower case and in upper case.
HashStrings ==
    {LowerHex(Sha256_finalize(c)) : c \in HashFiles}
        \cup {HexWith(UpperHexDigits, Sha256_finalize(c)) : c \in HashFiles}

Min(a, b) == IF a < b THEN a ELSE b

InitHash ==
    /\ IdleBatch
    /\ IdleYear
    /\ IdleToolbox
    /\ IdleGo
    /\ IdleKey
    /\ IdleVsCode
    /\ IdleIde
    /\ IdlePath
    /\ IdleVersion
    /\ IdleMain
    /\ IdleLookup
    /\ IdleCmd
    /\ IdleUrl
    /\ IdleDownload
    /\ IdleGpg
    /\ home_set = TRUE
    /\ h_file \in HashFiles
    /\ h_expected \in HashStrings
    /\ h_pc = "open"
    /\ h_pos = 0
    /\ hasher = Sha256_new
    /\ h_reads = <<>>
    /\ h_io_failed = FALSE
    /\ h_result = CheckNone

HashFrame == UNCHANGED <<batchVars, urlVars, dlVars, gpgVars, cmdVars, lookupVars, mainVars, versionVars, pathVars, ideVars, vscodeVars, keyVars, goVars, toolboxVars, yearVars>>

\* let file = File::open(file_path)?
OpenFile ==
    /\ h_pc = "open"
    /\ \E ok \in BOOLEAN :
        IF ok
        THEN /\ h_pc' = "read"
             /\ UNCHANGED <<h_io_failed, h_result>>
        ELSE /\ h_pc' = "done"
             /\ h_io_failed' = TRUE
             /\ h_result' = CheckErr("open failed")
    /\ UNCHANGED <<h_file, h_expected, h_pos, hasher, h_reads>>
    /\ HashFrame

\* reader.read(&mut buffer)? returned bytes_read > 0; hasher.update(&buffer[..bytes_read])
ReadChunk ==
    /\ h_pc = "read"
    /\ h_pos < Len(h_file)
    /\ \E bytes_read \in 1..Min(BufferSize, Len(h_file) - h_pos) :
        /\ hasher' = Sha256_update(hasher, SubSeq(h_file, h_pos + 1, h_pos + bytes_read))
        /\ h_pos' = h_pos + bytes_read
        /\ h_reads' = Append(h_reads, bytes_read)
    /\ UNCHANGED <<h_file, h_expected, h_pc, h_io_failed, h_result>>
    /\ HashFrame

\* reader.read(&mut buffer)? returned an error
ReadFails ==
    /\ h_pc = "read"
    /\ h_pc' = "done"
    /\ h_io_failed' = TRUE
    /\ h_result' = CheckErr("read failed")
    /\ UNCHANGED <<h_file, h_expected, h_pos, hasher, h_reads>>
    /\ HashFrame

\* bytes_read == 0: break, finalize, format, and self.hash == file_hash
ReadEof ==
    /\ h_pc = "read"
    /\ h_pos = Len(h_file)
    /\ h_pc' = "done"
    /\ h_result' = CheckOk(h_expected = LowerHex(Sha256_finalize(hasher)))
    /\ UNCHANGED <<h_file, h_expected, h_pos, hasher, h_reads, h_io_failed>>
    /\ HashFrame

NextHash == OpenFile \/ ReadChunk \/ ReadFails \/ ReadEof

SpecHash == InitHash /\ [][NextHash]_vars

RECURSIVE SumSeq(_)
SumSeq(s) == IF s = <<>> THEN 0 ELSE Head(s) + SumSeq(Tail(s))

\* The files that differ from f in exactly one byte.
OneByteChanged(f) ==
    {g \in HashFiles : Len(g) = Len(f) /\ Cardinality({i \in 1..Len(f) : g[i] # f[i]}) = 1}

\* C9: when matches has returned, it returned an error exactly when the open
\* or a read failed; otherwise the whole file was read in chunks of at most
\* the buffer size and the result is true exactly when the expected string
\* equals the lower-case hexadecimal digest of the whole file, however the
\* chunks fell; in particular the upper-case spelling of a digest with
\* letters and the digest of a file with one byte changed give false.
C9_MatchesIffWholeFileDigest ==
    h_pc = "done" =>
        /\ h_result.kind \in {"Ok", "Err"}
        /\ (h_result.kind = "Err") <=> h_io_failed
        /\ h_result.kind = "Ok" =>
            /\ SumSeq(h_reads) = Len(h_file)
            /\ \A i \in 1..Len(h_reads) : h_reads[i] \in 1..BufferSize
            /\ h_result.val <=> (h_expected = Sha256Hex(h_file))
            /\ \A g \in OneByteChanged(h_file) : h_expected = Sha256Hex(g) => ~h_result.val
            /\ (h_file # <<>> /\ h_expected = HexWith(UpperHexDigits, Sha256_finalize(h_file)))
                    => ~h_result.val

\* A three-byte file read in two chunks matched its digest.
C9_Witness ==
    /\ h_pc = "done"
    /\ h_file = <<"a", "b", "a">>
    /\ h_reads = <<1, 2>>
    /\ h_result = CheckOk(TRUE)

(***************************************************************************)
(* GpgKey::verify (download/gpg.rs).  The stderr of gpg is a sequence of   *)
(* tokens: a marker text as one token, and single characters.  Removing    *)
(* whitespace leaves the marker tokens in place, so a fingerprint never    *)
(* matches across a marker.                                                *)
(***************************************************************************)
SignatureMade == "gpg: Signature made"

GoodSignature == "gpg: Good signature from"

PrimaryKeyFingerprint == "Primary key fingerprint:"

VerifyFailed == "gpg: verify signatures failed"

Markers == {SignatureMade, GoodSignature, PrimaryKeyFingerprint, VerifyFailed}

Whitespace == {" "}

FingerprintChars == {"A", "B", " "}

MaxFingerprintLen == 2

FingerprintTexts == UNION {[1..n -> FingerprintChars] : n \in 0..MaxFingerprintLen}

Line(marker, present) == IF marker \in present THEN <<marker>> ELSE <<>>

\* The outputs tried: any set of the markers around a fingerprint text.
Stderrs ==
    {Line(SignatureMade, ms) \o Line(GoodSignature, ms) \o Line(PrimaryKeyFingerprint, ms)
        \o fp \o Line(VerifyFailed, ms) : ms \in SUBSET Markers, fp \in FingerprintTexts}

\* How exec_cmd can end: Io(StartFail), Io(WaitFail), UnsuccessfulStatus, or Ok(output).
ExecOutcomes == {"StartFail", "WaitFail", "UnsuccessfulStatus", "Ok"}

\* str::contains for one token.
contains(output, token) == \E i \in 1..Len(output) : output[i] = token

\* str::contains for a sequence of tokens.
contains_str(output, needle) ==
    \E i \in 0..(Len(output) - Len(needle)) : SubSeq(output, i + 1, i + Len(needle)) = needle

no_whitespace(c) == c \notin Whitespace

\* The normalized output must equal the normalized fingerprint.
gpg_output_equals_fingerprint(fingerprint, output) ==
    SelectSeq(output, no_whitespace) = SelectSeq(fingerprint, no_whitespace)

\* The fingerprint is searched for as it is written, spaces included.
gpg_output_contains_fingerprint_raw(fingerprint, output) ==
    contains_str(SelectSeq(output, no_whitespace), fingerprint)

\* GpgKey::gpg_output_contains_fingerprint
gpg_output_contains_fingerprint(fingerprint, output) ==
    contains_str(SelectSeq(output, no_whitespace), SelectSeq(fingerprint, no_whitespace))

\* GpgKey::verify, given how the gpg process ended and what it wrote.
GpgKey_verify(fingerprint, exec, stderr) ==
    IF exec # "Ok" THEN CheckErr(exec)
    ELSE LET out_contains_required_strings ==
                 \A value \in {SignatureMade, GoodSignature, PrimaryKeyFingerprint} :
                     contains(stderr, value)
             out_has_no_signature_error == ~contains(stderr, VerifyFailed)
             out_has_fingerprint == gpg_output_contains_fingerprint(fingerprint, stderr)
         IN CheckOk(out_contains_required_strings /\ out_has_no_signature_error
                        /\ out_has_fingerprint)

InitGpg ==
    /\ IdleBatch
    /\ IdleYear
    /\ IdleToolbox
    /\ IdleGo
    /\ IdleKey
    /\ IdleVsCode
    /\ IdleIde
    /\ IdlePath
    /\ IdleVersion
    /\ IdleMain
    /\ IdleLookup
    /\ IdleCmd
    /\ IdleUrl
    /\ IdleDownload
    /\ IdleHash
    /\ home_set = TRUE
    /\ g_fingerprint \in FingerprintTexts
    /\ g_stderr \in Stderrs
    /\ g_exec = None
    /\ g_result = CheckNone
    /\ g_stdout = <<>>
    /\ g_key_check = CheckNone

Verify ==
    /\ g_result = CheckNone
    /\ g_exec = None
    /\ \E exec \in ExecOutcomes :
        /\ g_exec' = exec
        /\ g_result' = GpgKey_verify(g_fingerprint, exec, g_stderr)
    /\ UNCHANGED <<g_fingerprint, g_stderr, g_stdout, g_key_check>>
    /\ UNCHANGED <<batchVars, urlVars, dlVars, hashVars, cmdVars, lookupVars, mainVars, versionVars, pathVars, ideVars, vscodeVars, keyVars, goVars, toolboxVars, yearVars>>

NextGpg == Verify

SpecGpg == InitGpg /\ [][NextGpg]_vars

\* The characters of s that are not whitespace, in order.
RECURSIVE Squeeze(_)
Squeeze(s) ==
    IF s = <<>> THEN <<>>
    ELSE IF Head(s) = " " THEN Squeeze(Tail(s)) ELSE <<Head(s)>> \o Squeeze(Tail(s))

\* The five conditions on the diagnostic output.
OutputConditions ==
    /\ \E i \in 1..Len(g_stderr) : g_stderr[i] = "gpg: Signature made"
    /\ \E i \in 1..Len(g_stderr) : g_stderr[i] = "gpg: Good signature from"
    /\ \E i \in 1..Len(g_stderr) : g_stderr[i] = "Primary key fingerprint:"
    /\ \A i \in 1..Len(g_stderr) : g_stderr[i] # "gpg: verify signatures failed"
    /\ LET out == Squeeze(g_stderr)
           fp == Squeeze(g_fingerprint)
       IN \E i \in 1..(Len(out) + 1) :
            /\ i + Len(fp) - 1 <= Len(out)
            /\ \A j \in 1..Len(fp) : out[i + j - 1] = fp[j]

\* C10 as stated: whenever verify has returned, it returned true if the five
\* conditions on the diagnostic output hold and false if any of them fails.
C10_TrueIffOutputConditions ==
    g_result # CheckNone => g_result = CheckOk(OutputConditions)

\* C10, amended: when the gpg process ran and exited successfully, verify
\* returns true if the five conditions on its diagnostic output hold and
\* false if any of them fails; when the process could not be started or
\* waited for, or exited unsuccessfully, verify returns an error.
C10_TrueIffOutputConditionsAfterSuccessfulExit ==
    g_result # CheckNone =>
        /\ g_exec = "Ok" => g_result = CheckOk(OutputConditions)
        /\ g_exec # "Ok" => g_result = CheckErr(g_exec)

\* A fingerprint written with a space was found in an output that holds every
\* required marker and no failure marker.
C10_Witness ==
    /\ g_exec = "Ok"
    /\ g_fingerprint = <<"A", " ">>
    /\ g_stderr = <<SignatureMade, GoodSignature, PrimaryKeyFingerprint, "B", "A">>
    /\ g_result = CheckOk(TRUE)

(***************************************************************************)
(* GpgKey::check_key_fingerprint (download/gpg.rs): the keyring listing of *)
(* gpg --fingerprint is searched for the expected fingerprint.             *)
(***************************************************************************)
MaxOutputLen == 3

\* A listing: fingerprint characters, spaces, and the "pub" heading of a key.
OutputTokens == {"A", "B", " ", "pub"}

KeyringOutputs == UNION {[1..n -> OutputTokens] : n \in 0..MaxOutputLen}

\* GpgKey::check_key_fingerprint, given how gpg --fingerprint ended and what
\* it wrote; contains_fingerprint is gpg_output_contains_fingerprint.
check_key_fingerprint(contains_fingerprint, exec) ==
    IF exec # "Ok" THEN CheckErr(exec)
    ELSE IF contains_fingerprint THEN CheckOk(TRUE)
         ELSE CheckErr("Key fingerprint does not exist in GPG")

InitKeyring ==
    /\ IdleBatch
    /\ IdleYear
    /\ IdleToolbox
    /\ IdleGo
    /\ IdleKey
    /\ IdleVsCode
    /\ IdleIde
    /\ IdlePath
    /\ IdleVersion
    /\ IdleMain
    /\ IdleLookup
    /\ IdleCmd
    /\ IdleUrl
    /\ IdleDownload
    /\ IdleHash
    /\ home_set = TRUE
    /\ g_fingerprint \in FingerprintTexts
    /\ g_stderr = <<>>
    /\ g_exec = None
    /\ g_result = CheckNone
    /\ g_stdout \in KeyringOutputs
    /\ g_key_check = CheckNone

CheckKeyFingerprint ==
    /\ g_key_check = CheckNone
    /\ g_exec = None
    /\ \E exec \in ExecOutcomes :
        /\ g_exec' = exec
        /\ g_key_check' =
             check_key_fingerprint(gpg_output_contains_fingerprint(g_fingerprint, g_stdout), exec)
    /\ UNCHANGED <<g_fingerprint, g_stderr, g_result, g_stdout>>
    /\ UNCHANGED <<batchVars, urlVars, dlVars, hashVars, cmdVars, lookupVars, mainVars, versionVars, pathVars, ideVars, vscodeVars, keyVars, goVars, toolboxVars, yearVars>>

NextKeyring == CheckKeyFingerprint

SpecKeyring == InitKeyring /\ [][NextKeyring]_vars

\* The positions at which the sequences a and b of equal length differ.
Differences(a, b) == {i \in 1..Len(a) : a[i] # b[i]}

\* C11: after a successful gpg --fingerprint, the fingerprint is found exactly
\* when the expected fingerprint without its whitespace occurs somewhere in
\* the output without its whitespace; every fingerprint that differs from the
\* expected one only in whitespace is found in the same output or not found
\* together with it; and a fingerprint that differs in exactly one character
\* from the only fingerprint of the output is not found.
C11_FingerprintMatchIsNormalizedContainment ==
    g_exec = "Ok" =>
        LET out == Squeeze(g_stdout)
            fp == Squeeze(g_fingerprint)
            found == g_key_check = CheckOk(TRUE)
        IN /\ found \/ g_key_check = CheckErr("Key fingerprint does not exist in GPG")
           /\ found <=> \E i \in 0..Len(out) :
                            /\ i + Len(fp) <= Len(out)
                            /\ \A j \in 1..Len(fp) : out[i + j] = fp[j]
           /\ \A other \in FingerprintTexts :
                Squeeze(other) = fp =>
                    (gpg_output_contains_fingerprint(other, g_stdout) <=> found)
           /\ (Len(fp) = Len(out) /\ Cardinality(Differences(fp, out)) = 1) => ~found

\* A fingerprint written with a space was found inside a longer fingerprint.
C11_Witness ==
    /\ g_exec = "Ok"
    /\ g_fingerprint = <<"A", " ">>
    /\ g_stdout = <<"B", " ", "A">>
    /\ g_key_check = CheckOk(TRUE)

(***************************************************************************)
(* exec_cmd (cmd.rs): spawn with the three streams piped, wait for the     *)
(* output, check the exit status.  An exit status is <<code>>, or <<>>     *)
(* when the process was ended by a signal.                                 *)
(***************************************************************************)
ExitStatuses == {<<0>>, <<1>>, <<2>>, <<>>}

Programs ==
    [starts : BOOLEAN, waits : BOOLEAN, status : ExitStatuses,
     stdout : {"", "out"}, stderr : {"", "warning"}]

CmdErr(cause, code) ==
    [kind |-> "Err", cause |-> cause, code |-> code, stdout |-> "", stderr |-> ""]

CmdOk(output) ==
    [kind |-> "Ok", cause |-> "", code |-> output.status, stdout |-> output.stdout,
     stderr |-> output.stderr]

\* ExitStatus::success
success(status) == status = <<0>>

\* check_success that also fails a run that wrote to stderr.
check_success_quiet(output) ==
    IF success(output.status) /\ output.stderr = "" THEN CmdOk(output)
    ELSE CmdErr("UnsuccessfulStatus", output.status)

\* the check_success closure
check_success(output) ==
    IF success(output.status) THEN CmdOk(output)
    ELSE CmdErr("UnsuccessfulStatus", output.status)

\* the wait_child closure
wait_child(program) ==
    IF ~program.waits THEN CmdErr("WaitFail", <<>>)
    ELSE check_success([status |-> program.status, stdout |-> program.stdout,
                        stderr |-> program.stderr])

InitCmd ==
    /\ IdleBatch
    /\ IdleYear
    /\ IdleToolbox
    /\ IdleGo
    /\ IdleKey
    /\ IdleVsCode
    /\ IdleIde
    /\ IdlePath
    /\ IdleVersion
    /\ IdleMain
    /\ IdleLookup
    /\ IdleUrl
    /\ IdleDownload
    /\ IdleHash
    /\ IdleGpg
    /\ home_set = TRUE
    /\ c_program \in Programs
    /\ c_pc = "spawn"
    /\ c_spawns = 0
    /\ c_result = CmdNone

CmdFrame == UNCHANGED <<batchVars, urlVars, dlVars, hashVars, gpgVars, lookupVars, mainVars, versionVars, pathVars, ideVars, vscodeVars, keyVars, goVars, toolboxVars, yearVars>>

\* Command::new(cmd)...spawn().map_err(io_err(StartFail))
Spawn ==
    /\ c_pc = "spawn"
    /\ c_spawns' = c_spawns + 1
    /\ IF c_program.starts
       THEN /\ c_pc' = "wait"
            /\ UNCHANGED c_result
       ELSE /\ c_pc' = "done"
            /\ c_result' = CmdErr("StartFail", <<>>)
    /\ UNCHANGED c_program
    /\ CmdFrame

\* .and_then(wait_child)
WaitChild ==
    /\ c_pc = "wait"
    /\ c_pc' = "done"
    /\ c_result' = wait_child(c_program)
    /\ UNCHANGED <<c_program, c_spawns>>
    /\ CmdFrame

NextCmd == Spawn \/ WaitChild

SpecCmd == InitCmd /\ [][NextCmd]_vars

\* C12: the program is spawned at most once, and when exec_cmd has returned
\* it was spawned exactly once and the result is StartFail if it could not be
\* started, else WaitFail if the wait failed, else UnsuccessfulStatus with
\* the exit code (if there is one) if the status is not 0, else Ok with
\* status 0 and the stdout and stderr the program wrote, whether or not
\* stderr is empty.
C12_OneSpawnFourOutcomes ==
    /\ c_spawns <= 1
    /\ c_pc = "done" =>
        /\ c_spawns = 1
        /\ IF ~c_program.starts THEN c_result = CmdErr("StartFail", <<>>)
           ELSE IF ~c_program.waits THEN c_result = CmdErr("WaitFail", <<>>)
           ELSE IF c_program.status # <<0>>
                THEN c_result = CmdErr("UnsuccessfulStatus", c_program.status)
                ELSE /\ c_result.kind = "Ok"
                     /\ c_result.code = <<0>>
                     /\ c_result.stdout = c_program.stdout
                     /\ c_result.stderr = c_program.stderr

\* A run that exited with 0 and wrote to stderr returned Ok with both streams.
C12_Witness ==
    /\ c_pc = "done"
    /\ c_program.status = <<0>>
    /\ c_program.stderr = "warning"
    /\ c_result.kind = "Ok"
    /\ c_result.stderr = "warning"
    /\ c_result.stdout = "out"

(***************************************************************************)
(* The image registry (image/repository.rs, image.rs): a string is         *)
(* resolved to a loader, and the loader reads image/<id>.json and, for a   *)
(* configuration, image/<id>.config.json.                                  *)
(***************************************************************************)
\* Spellings of known names in another case, and other strings.
LookupStrings ==
    {DesktopDisplay(id) : id \in DesktopImageId} \cup {ServerDisplay(id) : id \in ServerImageId}
        \cup {"Zoom", "ZOOM", "VsCode", "VSCODE", "Go", "GO", "Rust", "Miniconda", "MINICONDA",
              "JetBrains-Toolbox"}
        \cup {"", "zoom ", " zoom", "zoo", "zoomx", "desktop", "unknown"}

InitLookup ==
    /\ IdleBatch
    /\ IdleYear
    /\ IdleToolbox
    /\ IdleGo
    /\ IdleKey
    /\ IdleVsCode
    /\ IdleIde
    /\ IdlePath
    /\ IdleVersion
    /\ IdleMain
    /\ IdleUrl
    /\ IdleDownload
    /\ IdleHash
    /\ IdleGpg
    /\ IdleCmd
    /\ home_set = TRUE
    /\ l_str \in LookupStrings
    /\ l_info_file \in FileStates
    /\ l_config_file \in FileStates
    /\ l_pc = "lookup"
    /\ l_loader = NoLoader
    /\ l_reads = <<>>
    /\ l_result = LoadNone

LookupFrame == UNCHANGED <<batchVars, urlVars, dlVars, hashVars, gpgVars, cmdVars, mainVars, versionVars, pathVars, ideVars, vscodeVars, keyVars, goVars, toolboxVars, yearVars>>

\* Repository::image_loader_from(s)
Lookup ==
    /\ l_pc = "lookup"
    /\ l_loader' = image_loader_from(l_str)
    /\ IF image_loader_from(l_str).ok
       THEN /\ l_pc' = "found"
            /\ UNCHANGED l_result
       ELSE /\ l_pc' = "done"
            /\ l_result' = LoadErr("NotFound", l_str, "")
    /\ UNCHANGED <<l_str, l_info_file, l_config_file, l_reads>>
    /\ LookupFrame

\* loader.load_image(os)
LoadImage ==
    /\ l_pc = "found"
    /\ l_pc' = "done"
    /\ l_result' = load_image_files(l_loader, l_info_file).result
    /\ l_reads' = l_reads \o load_image_files(l_loader, l_info_file).reads
    /\ UNCHANGED <<l_str, l_info_file, l_config_file, l_loader>>
    /\ LookupFrame

\* loader.load_config(os)
LoadConfig ==
    /\ l_pc = "found"
    /\ l_pc' = "done"
    /\ l_result' = load_config(l_loader, l_info_file, l_config_file).result
    /\ l_reads' = l_reads \o load_config(l_loader, l_info_file, l_config_file).reads
    /\ UNCHANGED <<l_str, l_info_file, l_config_file, l_loader>>
    /\ LookupFrame

NextLookup == Lookup \/ LoadImage \/ LoadConfig

SpecLookup == InitLookup /\ [][NextLookup]_vars

\* The closed identifier set, as the names the identifiers display as.
KnownNames ==
    {"zoom", "vscode", "jetbrains-toolbox", "intellij-idea", "webstorm", "pycharm",
     "rust", "go", "sdkman", "java", "gradle", "nvm", "node", "miniconda"}

\* C13: display and str_find are inverses of each other on the identifier
\* set; once a string has been looked up, a known name gave a loader whose
\* image id displays as that string, and every other string, the spellings
\* in another case included, gave the not-found error with no metadata file
\* opened.
C13_LookupIsExactInverseOfDisplay ==
    /\ \A id \in DesktopImageId : DesktopStrFind(DesktopDisplay(id)) = id
    /\ \A id \in ServerImageId : ServerStrFind(ServerDisplay(id)) = id
    /\ \A s \in LookupStrings :
        /\ DesktopStrFind(s) # None => DesktopDisplay(DesktopStrFind(s)) = s
        /\ ServerStrFind(s) # None => ServerDisplay(ServerStrFind(s)) = s
    /\ l_pc \in {"found", "done"} =>
        IF l_str \in KnownNames
        THEN /\ l_loader.ok
             /\ to_image_id(l_loader.family, l_loader.id) = l_str
        ELSE /\ ~l_loader.ok
             /\ l_pc = "done"
             /\ l_result = LoadErr("NotFound", l_str, "")
             /\ l_reads = <<>>

\* The upper-case spelling of a known name was not found.
C13_Witness ==
    /\ l_str = "ZOOM"
    /\ l_pc = "done"
    /\ l_result.error = "NotFound"

\* C14: when a load has returned for the operation config, then for every
\* identifier other than miniconda it returned OperationNotImplemented with
\* the identifier and "config" and opened no file; for miniconda it opened
\* miniconda.json, and miniconda.config.json only after that one loaded, and
\* returned Ok exactly when both files load and parse.
C14_ConfigOnlyForMiniconda ==
    (l_pc = "done" /\ l_result.op = "config") =>
        IF l_str = "miniconda"
        THEN /\ (l_result.kind = "Ok") <=> (l_info_file = "ok" /\ l_config_file = "ok")
             /\ l_result.kind = "Err" => l_result.error \in {"IoError", "SerdeError"}
             /\ l_reads = IF l_info_file = "ok"
                          THEN << <<"image", "miniconda", "json">>,
                                  <<"image", "miniconda", "config", "json">> >>
                          ELSE << <<"image", "miniconda", "json">> >>
        ELSE /\ l_result = LoadErr("OperationNotImplemented", l_str, "config")
             /\ l_reads = <<>>

\* The image file of miniconda loaded and its configuration file did not parse.
C14_Witness ==
    /\ l_str = "miniconda"
    /\ l_pc = "done"
    /\ l_info_file = "ok"
    /\ l_config_file = "invalid"
    /\ l_result = LoadErr("SerdeError", "miniconda", "config")

(***************************************************************************)
(* The program entry (main.rs): main parses the command line, calls        *)
(* execute_operation and prints what it returned.                          *)
(***************************************************************************)
\* The subcommands of the Operation enum of main.rs.
MainOperations == {"Install", "Uninstall", "Reinstall"}

\* What detect_os can find: Ok(Some(UBUNTU_X64)), Ok(None), or an io::Error
\* reading /etc/os-release.
OsOutcomes == {"Ubuntu", "Unsupported", "IoError"}

\* How the process ends: main returned (status 0), or a panic unwound out of
\* main (a non-zero status).
ExitSuccess == "success"

ExitPanic == "panicked"

InitMain ==
    /\ IdleBatch
    /\ IdleYear
    /\ IdleToolbox
    /\ IdleGo
    /\ IdleKey
    /\ IdleVsCode
    /\ IdleIde
    /\ IdlePath
    /\ IdleVersion
    /\ IdleUrl
    /\ IdleDownload
    /\ IdleHash
    /\ IdleGpg
    /\ IdleCmd
    /\ IdleLookup
    /\ home_set \in BOOLEAN
    /\ m_operation \in MainOperations
    /\ m_images \in ImageLists
    /\ m_os \in OsOutcomes
    /\ m_pc = "start"
    /\ m_idx = 1
    /\ m_ran = <<>>
    /\ m_exec = ExecNone
    /\ m_out = <<>>
    /\ m_exit = "running"

MainFrame ==
    UNCHANGED <<batchVars, urlVars, dlVars, hashVars, gpgVars, cmdVars, lookupVars, versionVars, pathVars, ideVars, vscodeVars, keyVars, goVars, toolboxVars, yearVars>>

\* let os = detect_os().map_err(..)?.ok_or_else(|| "OS unsupported")?;
DetectOs ==
    /\ m_pc = "start"
    /\ IF m_os = "Ubuntu"
       THEN /\ m_pc' = "loop"
            /\ UNCHANGED m_exec
       ELSE /\ m_pc' = "returned"
            /\ m_exec' = Err(IF m_os = "IoError" THEN "IoError" ELSE "OS unsupported")
    /\ UNCHANGED <<m_operation, m_images, m_os, m_idx, m_ran, m_out, m_exit>>
    /\ MainFrame

\* One iteration of `for id_raw in packages`: load_image(id_raw)?, the start
\* line, then ops.install()? (or uninstall, reinstall).  An Err leaves the
\* function at the `?`; a panic of the operation ends the process.
LoopBody ==
    /\ m_pc = "loop"
    /\ m_idx <= Len(m_images)
    /\ \E info_file \in FileStates :
       LET id_raw == m_images[m_idx]
           loader == image_loader_from(id_raw)
           loaded == OperationContext_load_image(id_raw, info_file)
       IN IF loaded.kind # "Ok"
          THEN /\ m_ran' = Append(m_ran, [id_raw |-> id_raw, result |-> Err(loaded.error)])
               /\ m_exec' = Err(loaded.error)
               /\ m_pc' = "returned"
               /\ UNCHANGED <<m_idx, m_out, m_exit>>
          ELSE \E un \in UninstallOutcomes(loader, home_set),
                  ins \in InstallOutcomes(loader, home_set) :
               LET run == ImageOps_run(m_operation, un, ins)
                   id == to_image_id(loader.family, loader.id)
               IN /\ m_ran' = Append(m_ran, [id_raw |-> id_raw, result |-> run.result])
                  /\ m_out' = Append(m_out, PrintLine("stdout", "Start",
                                         Operation_to_string(m_operation), id, ""))
                  /\ CASE run.result.kind = "Ok" ->
                            /\ m_idx' = m_idx + 1
                            /\ UNCHANGED <<m_pc, m_exec, m_exit>>
                       [] run.result.kind = "Err" ->
                            /\ m_exec' = run.result
                            /\ m_pc' = "returned"
                            /\ UNCHANGED <<m_idx, m_exit>>
                       [] run.result.kind = "Panic" ->
                            /\ m_exit' = ExitPanic
                            /\ m_pc' = "exited"
                            /\ UNCHANGED <<m_idx, m_exec>>
    /\ UNCHANGED <<m_operation, m_images, m_os>>
    /\ MainFrame

\* The loop is over: Ok(())
LoopEnd ==
    /\ m_pc = "loop"
    /\ m_idx > Len(m_images)
    /\ m_exec' = Ok
    /\ m_pc' = "returned"
    /\ UNCHANGED <<m_operation, m_images, m_os, m_idx, m_ran, m_out, m_exit>>
    /\ MainFrame

\* main: match exec { Ok(_) => println!(..), Err(err) => eprintln!(..) }, and
\* main returns ().
main_exit_status(exec) == ExitSuccess

MainReturns ==
    /\ m_pc = "returned"
    /\ m_out' = Append(m_out,
                   IF m_exec.kind = "Ok"
                   THEN PrintLine("stdout", "ExecutionSuccessful", "", "", "")
                   ELSE PrintLine("stderr", "FailToExecute", "", "", m_exec.cause))
    /\ m_exit' = main_exit_status(m_exec)
    /\ m_pc' = "exited"
    /\ UNCHANGED <<m_operation, m_images, m_os, m_idx, m_ran, m_exec>>
    /\ MainFrame

NextMain == DetectOs \/ LoopBody \/ LoopEnd \/ MainReturns

SpecMain == InitMain /\ [][NextMain]_vars

\* Every requested identifier was processed and its operation returned Ok.
EveryIdSucceeded ==
    /\ Len(m_ran) = Len(m_images)
    /\ \A i \in 1..Len(m_ran) : m_ran[i].result.kind = "Ok"

\* C17: the process exits with status 0 only if every requested identifier
\* succeeded at the operation; if an identifier failed, the identifiers after
\* it have been run as well and the exit status is not 0.
C17_ExitStatusReflectsBatch ==
    m_pc = "exited" =>
        /\ (m_exit = ExitSuccess) => EveryIdSucceeded
        /\ (\E i \in 1..Len(m_ran) : m_ran[i].result.kind # "Ok") =>
              /\ Len(m_ran) = Len(m_images)
              /\ m_exit # ExitSuccess

\* What main does: it stops at the first identifier that fails, and it
\* returns normally whatever execute_operation returned.
MainStopsAtFirstFailure ==
    /\ \A i \in 1..Len(m_ran) : m_ran[i].result.kind # "Ok" => i = Len(m_ran)
    /\ (m_pc = "exited" /\ m_exec # ExecNone) => m_exit = ExitSuccess

(***************************************************************************)
(* Version strings (package.rs): Display and FromStr of SemVer, SemVerRev  *)
(* and SemVerVendor.  A string is a sequence of characters.                *)
(***************************************************************************)
\* Largest values of the component types u8 and u16.
U8_MAX == 255

U16_MAX == 65535

MaxComponents == 4

DigitChars == <<"0", "1", "2", "3", "4", "5", "6", "7", "8", "9">>

DigitValue(c) == CHOOSE d \in 0..9 : DigitChars[d + 1] = c

IsDigit(c) == \E d \in 0..9 : DigitChars[d + 1] = c

\* The decimal digits of n, as format!("{}", n) writes an unsigned integer.
RECURSIVE uint_to_string(_)
uint_to_string(n) ==
    IF n < 10 THEN <<DigitChars[n + 1]>>
    ELSE uint_to_string(n \div 10) \o <<DigitChars[(n % 10) + 1]>>

\* The value of a sequence of digits.
RECURSIVE digits_value(_)
digits_value(ds) ==
    IF ds = <<>> THEN 0
    ELSE digits_value(SubSeq(ds, 1, Len(ds) - 1)) * 10 + DigitValue(ds[Len(ds)])

ParseIntOk(n) == [kind |-> "Ok", val |-> n, error |-> ""]

ParseIntErr(e) == [kind |-> "Err", val |-> 0, error |-> e]

\* str::parse::<u8> and str::parse::<u16>: an empty string and a lone sign are
\* errors, one leading + is skipped, every other character must be a digit,
\* and a value above the maximum of the type is an error.
parse_uint(s, max) ==
    IF s = <<>> THEN ParseIntErr("Empty")
    ELSE IF Len(s) = 1 /\ s[1] \in {"+", "-"} THEN ParseIntErr("InvalidDigit")
    ELSE LET digits == IF s[1] = "+" THEN Tail(s) ELSE s IN
         IF \E i \in 1..Len(digits) : ~IsDigit(digits[i]) THEN ParseIntErr("InvalidDigit")
         ELSE IF digits_value(digits) > max THEN ParseIntErr("PosOverflow")
         ELSE ParseIntOk(digits_value(digits))

\* str::split(sep): the pieces between the occurrences of sep.
RECURSIVE split(_, _)
split(s, sep) ==
    IF \A i \in 1..Len(s) : s[i] # sep THEN <<s>>
    ELSE LET i == CHOOSE k \in 1..Len(s) : s[k] = sep /\ \A j \in 1..(k - 1) : s[j] # sep
         IN <<SubSeq(s, 1, i - 1)>> \o split(SubSeq(s, i + 1, Len(s)), sep)

\* str::splitn(2, sep): split at the first occurrence of sep only.
splitn2(s, sep) ==
    IF \A i \in 1..Len(s) : s[i] # sep THEN <<s>>
    ELSE LET i == CHOOSE k \in 1..Len(s) : s[k] = sep /\ \A j \in 1..(k - 1) : s[j] # sep
         IN <<SubSeq(s, 1, i - 1), SubSeq(s, i + 1, Len(s))>>

VersionOk(nums, vendor) == [kind |-> "Ok", error |-> "", nums |-> nums, vendor |-> vendor]

VersionErr(e) == [kind |-> "Err", error |-> e, nums |-> <<>>, vendor |-> <<>>]

\* The numeric components parsed in order, each with `?`.
parse_parts(parts, maxes) ==
    LET r == [i \in 1..Len(parts) |-> parse_uint(parts[i], maxes[i])] IN
    IF \E i \in 1..Len(r) : r[i].kind = "Err"
    THEN VersionErr("DigitIntError")
    ELSE VersionOk([i \in 1..Len(r) |-> r[i].val], <<>>)

\* impl FromStr for SemVer
SemVer_from_str(s) ==
    LET parts == split(s, ".") IN
    IF Len(parts) # 3 THEN VersionErr("InvalidDigit")
    ELSE parse_parts(parts, <<U8_MAX, U8_MAX, U8_MAX>>)

\* impl FromStr for SemVerRev
SemVerRev_from_str(s) ==
    LET parts == split(s, ".") IN
    IF Len(parts) # 4 THEN VersionErr("InvalidDigit")
    ELSE parse_parts(parts, <<U8_MAX, U8_MAX, U8_MAX, U16_MAX>>)

\* impl FromStr for SemVerVendor
SemVerVendor_from_str(s) ==
    LET parts == splitn2(s, "-") IN
    IF Len(parts) # 2 THEN VersionErr("InvalidDigit")
    ELSE LET version == SemVer_from_str(parts[1]) IN
         IF version.kind = "Err" THEN version
         ELSE VersionOk(version.nums, parts[2])

\* A from_str that takes the canonical spelling only: no sign, no leading zero.
from_str_canonical(ty, s) ==
    LET r == CASE ty = "SemVer" -> SemVer_from_str(s)
               [] ty = "SemVerRev" -> SemVerRev_from_str(s)
               [] ty = "SemVerVendor" -> SemVerVendor_from_str(s)
    IN IF r.kind = "Ok" /\ \E i \in 1..Len(s) :
              \/ s[i] = "+" /\ (ty # "SemVerVendor" \/ \A j \in 1..i : s[j] # "-")
              \/ /\ s[i] = "0" /\ i < Len(s) /\ IsDigit(s[i + 1])
                 /\ (i = 1 \/ s[i - 1] = ".")
                 /\ (ty # "SemVerVendor" \/ \A j \in 1..i : s[j] # "-")
       THEN VersionErr("DigitIntError")
       ELSE r

from_str(ty, s) ==
    CASE ty = "SemVer" -> SemVer_from_str(s)
      [] ty = "SemVerRev" -> SemVerRev_from_str(s)
      [] ty = "SemVerVendor" -> SemVerVendor_from_str(s)

\* impl Display for SemVer, SemVerRev, SemVerVendor
to_string(ty, v) ==
    LET n == v.nums
        xyz == uint_to_string(n[1]) \o <<".">> \o uint_to_string(n[2]) \o <<".">>
                   \o uint_to_string(n[3])
    IN CASE ty = "SemVer" -> xyz
         [] ty = "SemVerRev" -> xyz \o <<".">> \o uint_to_string(n[4])
         [] ty = "SemVerVendor" -> xyz \o <<"-">> \o v.vendor

VersionTypes == {"SemVer", "SemVerRev", "SemVerVendor"}

\* Spellings of one component: canonical, with a leading zero, with a sign,
\* at and above the limits of u8 and u16, and empty.
Components ==
    { <<>>, <<"1">>, <<"0", "1">>, <<"+", "1">>, <<"2", "5", "5">>, <<"2", "5", "6">>,
      <<"6", "5", "5", "3", "5">>, <<"6", "5", "5", "3", "6">> }

\* What may follow the last component.
Suffixes == { <<>>, <<"-">>, <<"-", "a">>, <<"-", "a", "-", "b">> }

RECURSIVE join(_)
join(cs) ==
    IF Len(cs) = 1 THEN cs[1] ELSE join(SubSeq(cs, 1, Len(cs) - 1)) \o <<".">> \o cs[Len(cs)]

VersionStrings ==
    {join(cs) \o suffix :
        cs \in UNION {[1..n -> Components] : n \in 1..MaxComponents}, suffix \in Suffixes}

InitVersion ==
    /\ IdleBatch
    /\ IdleYear
    /\ IdleToolbox
    /\ IdleGo
    /\ IdleKey
    /\ IdleVsCode
    /\ IdleIde
    /\ IdlePath
    /\ IdleMain
    /\ IdleUrl
    /\ IdleDownload
    /\ IdleHash
    /\ IdleGpg
    /\ IdleCmd
    /\ IdleLookup
    /\ home_set = TRUE
    /\ v_type \in VersionTypes
    /\ v_input \in VersionStrings
    /\ v_pc = "input"
    /\ v_parsed = VersionNone
    /\ v_rendered = <<>>
    /\ v_reparsed = VersionNone

VersionFrame ==
    UNCHANGED <<batchVars, urlVars, dlVars, hashVars, gpgVars, cmdVars, lookupVars, mainVars, pathVars, ideVars, vscodeVars, keyVars, goVars, toolboxVars, yearVars>>

\* Deserialize: visit_str calls from_str on the string of the file.
ParseVersion ==
    /\ v_pc = "input"
    /\ v_parsed' = from_str(v_type, v_input)
    /\ v_pc' = "parsed"
    /\ UNCHANGED <<v_type, v_input, v_rendered, v_reparsed>>
    /\ VersionFrame

\* version.to_string() of the loaded value.
RenderVersion ==
    /\ v_pc = "parsed"
    /\ v_parsed.kind = "Ok"
    /\ v_rendered' = to_string(v_type, v_parsed)
    /\ v_pc' = "rendered"
    /\ UNCHANGED <<v_type, v_input, v_parsed, v_reparsed>>
    /\ VersionFrame

\* from_str of what was rendered.
ReparseVersion ==
    /\ v_pc = "rendered"
    /\ v_reparsed' = from_str(v_type, v_rendered)
    /\ v_pc' = "reparsed"
    /\ UNCHANGED <<v_type, v_input, v_parsed, v_rendered>>
    /\ VersionFrame

NextVersion == ParseVersion \/ RenderVersion \/ ReparseVersion

SpecVersion == InitVersion /\ [][NextVersion]_vars

\* How many times c occurs in s.
CountChar(s, c) == Cardinality({i \in 1..Len(s) : s[i] = c})

\* The part of the input that holds the numeric components.
NumericPart ==
    IF v_type = "SemVerVendor" THEN splitn2(v_input, "-")[1] ELSE v_input

\* The input does not have the number of components of its type.
WrongComponentCount ==
    \/ CountChar(NumericPart, ".") + 1 # (IF v_type = "SemVerRev" THEN 4 ELSE 3)
    \/ v_type = "SemVerVendor" /\ CountChar(v_input, "-") = 0

\* A component of the input is a number above the maximum of its type.
ComponentOutOfRange ==
    LET parts == split(NumericPart, ".") IN
    \E i \in 1..Len(parts) :
        /\ parts[i] # <<>>
        /\ \A k \in 1..Len(parts[i]) : IsDigit(parts[i][k])
        /\ digits_value(parts[i]) > (IF v_type = "SemVerRev" /\ i = 4 THEN U16_MAX ELSE U8_MAX)

\* A value renders to a string that parses to the same value.
ValueRoundTrip == v_pc = "reparsed" => v_reparsed = v_parsed

\* Malformed and out-of-range strings are rejected.
MalformedRejected ==
    (v_pc # "input" /\ (WrongComponentCount \/ ComponentOutOfRange)) => v_parsed.kind = "Err"

\* A string that parses renders back to itself.
StringRoundTrip == v_pc \in {"rendered", "reparsed"} => v_rendered = v_input

\* C20: a version string that parses as SemVer, SemVerRev or SemVerVendor is
\* rendered back to the same string; a value of these types is parsed back
\* from its rendering; a string with the wrong number of components or with a
\* component outside the range of its integer type is rejected.
C20_VersionRoundTrip == StringRoundTrip /\ ValueRoundTrip /\ MalformedRejected

\* The round trip of the strings whose components are written without a sign
\* and without leading zeros.
CanonicalStringRoundTrip ==
    (v_pc \in {"rendered", "reparsed"} /\ from_str_canonical(v_type, v_input).kind = "Ok") =>
        v_rendered = v_input

(***************************************************************************)
(* ImageInfoLoader::{from, of, path} (image.rs).  A relative path is the   *)
(* sequence of its components.                                             *)
(***************************************************************************)
MaxOfCalls == 2

\* Display of InfoFileType.
InfoFileTypes == {"image", "config"}

\* The roots the program and its tests use, and sub-directories.
InfoRoots == { <<"image">>, <<"resources", "test", "image">> }

InfoDirs == { <<>>, <<"desktop">> }

\* PathBuf::join of relative paths: the components of the second follow
\* those of the first; joining the empty path adds no component.
PathBuf_join(base, rel) == base \o rel

\* ImageInfoLoader::from
ImageInfoLoader_from(id, root, dir) ==
    [id |-> id, root |-> root, dir |-> dir, file_type |-> "image"]

\* An of() that starts again from the root directory.
ImageInfoLoader_of_root(loader, file_type) ==
    [id |-> loader.id, root |-> loader.root, dir |-> <<>>, file_type |-> file_type]

\* ImageInfoLoader::of
ImageInfoLoader_of(loader, file_type) ==
    [id |-> loader.id, root |-> loader.root, dir |-> loader.dir, file_type |-> file_type]

\* The match on file_type of ImageInfoLoader::path.
info_filename(id, file_type) ==
    IF file_type = "image" THEN id \o ".json" ELSE id \o "." \o file_type \o ".json"

\* ImageInfoLoader::path of a loader with any root and dir.
ImageInfoLoader_path_in(loader) ==
    PathBuf_join(PathBuf_join(loader.root, loader.dir),
                 <<info_filename(loader.id, loader.file_type)>>)

InitPath ==
    /\ IdleBatch
    /\ IdleYear
    /\ IdleToolbox
    /\ IdleGo
    /\ IdleKey
    /\ IdleVsCode
    /\ IdleIde
    /\ IdleMain
    /\ IdleVersion
    /\ IdleUrl
    /\ IdleDownload
    /\ IdleHash
    /\ IdleGpg
    /\ IdleCmd
    /\ IdleLookup
    /\ home_set = TRUE
    /\ \E id \in KnownNames, root \in InfoRoots, dir \in InfoDirs :
          /\ p_args = [id |-> id, root |-> root, dir |-> dir, file_type |-> "image"]
          /\ p_loader = ImageInfoLoader_from(id, root, dir)
    /\ p_ofs = 0
    /\ p_path = NoPath

PathFrame ==
    UNCHANGED <<batchVars, urlVars, dlVars, hashVars, gpgVars, cmdVars, lookupVars, mainVars,
                versionVars, ideVars, vscodeVars, keyVars, goVars, toolboxVars, yearVars>>

\* let other = info.of(file_type)
Of ==
    /\ p_ofs < MaxOfCalls
    /\ \E file_type \in InfoFileTypes : p_loader' = ImageInfoLoader_of(p_loader, file_type)
    /\ p_ofs' = p_ofs + 1
    /\ UNCHANGED <<p_args, p_path>>
    /\ PathFrame

\* info.path()
Path ==
    /\ p_path' = [called |-> TRUE, file_type |-> p_loader.file_type,
                  parts |-> ImageInfoLoader_path_in(p_loader)]
    /\ UNCHANGED <<p_args, p_loader, p_ofs>>
    /\ PathFrame

NextPath == Of \/ Path

SpecPath == InitPath /\ [][NextPath]_vars

\* C22: the path of a loader is root, then dir, then <id>.json for install
\* metadata and <id>.config.json for configuration metadata, for the id, root
\* and dir the loader was made from: of() changes the file type only.
C22_InfoPathFollowsNamingConvention ==
    /\ p_loader.id = p_args.id
    /\ p_loader.root = p_args.root
    /\ p_loader.dir = p_args.dir
    /\ p_ofs = 0 => p_loader.file_type = "image"
    /\ p_path.called =>
          p_path.parts = p_args.root \o p_args.dir \o
              <<IF p_path.file_type = "image" THEN p_args.id \o ".json"
                ELSE p_args.id \o ".config.json">>

\* The configuration file of miniconda under a sub-directory, after two of().
C22_Witness ==
    /\ p_ofs = 2
    /\ p_path.called
    /\ p_path.parts = <<"image", "desktop", "miniconda.config.json">>

(***************************************************************************)
(* The JetBrains IDE images (image/desktop.rs, mod jetbrains_ide): install *)
(* moves the unpacked IDE under <HOME>/.local/share/JetBrains/Toolbox/apps *)
(* and uninstall removes a directory there.                                *)
(***************************************************************************)
MaxIdeOps == 3

JetBrainsIdeImageId == {"IntelliJIdea", "WebStorm", "PyCharm"}

\* JetBrainsIdeImageId::to_desktop_image_id
to_desktop_image_id(id) ==
    CASE id = "IntelliJIdea" -> "IntelliJIdea"
      [] id = "WebStorm" -> "WebStorm"
      [] id = "PyCharm" -> "PyCharm"

\* pkg_name with the arm of IntelliJ IDEA left out.
pkg_name_as_id(id) == DesktopDisplay(to_desktop_image_id(id))

\* JetBrainsIdeImageId::pkg_name
pkg_name(id) ==
    IF id = "IntelliJIdea" THEN "idea" ELSE DesktopDisplay(to_desktop_image_id(id))

\* install: ide_dir = apps_dir.join(self.0.package().name)
install_ide_dir(id) == pkg_name(id)

\* uninstall: ide_dir = toolbox_dir.join("apps").join(self.0.id().to_string())
uninstall_ide_dir(id) == DesktopDisplay(to_desktop_image_id(id))

IdeStep(op, result, apps) == [op |-> op, result |-> result, apps |-> apps]

\* JetBrainsIdeImage::install.  early_ok: the Toolbox check, the download and
\* the unpacking succeeded; fs::rename fails on an existing directory;
\* restart_ok: restart_jetbrains_toolbox succeeded.
JetBrainsIdeImage_install(id, apps, home, early_ok, restart_ok) ==
    IF ~home THEN IdeStep("install", Err("environment variable not found"), apps)
    ELSE IF ~early_ok THEN IdeStep("install", Err("install failed"), apps)
    ELSE IF install_ide_dir(id) \in apps THEN IdeStep("install", Err("Fail to move"), apps)
    ELSE IF ~restart_ok
         THEN IdeStep("install", Err("restart failed"), apps \cup {install_ide_dir(id)})
    ELSE IdeStep("install", Ok, apps \cup {install_ide_dir(id)})

\* JetBrainsIdeImage::uninstall.  fs::remove_dir_all fails on a directory
\* that does not exist (or, fs_ok false, cannot be removed).
JetBrainsIdeImage_uninstall(id, apps, home, fs_ok, restart_ok) ==
    IF ~home THEN IdeStep("uninstall", Err("environment variable not found"), apps)
    ELSE IF uninstall_ide_dir(id) \notin apps
         THEN IdeStep("uninstall", Err("No such file or directory"), apps)
    ELSE IF ~fs_ok THEN IdeStep("uninstall", Err("remove_dir_all failed"), apps)
    ELSE IF ~restart_ok
         THEN IdeStep("uninstall", Err("restart failed"), apps \ {uninstall_ide_dir(id)})
    ELSE IdeStep("uninstall", Ok, apps \ {uninstall_ide_dir(id)})

\* ImageOps::reinstall of the image: uninstall()?; install()
JetBrainsIdeImage_reinstall(id, apps, home, early_ok, fs_ok, restart_ok) ==
    LET un == JetBrainsIdeImage_uninstall(id, apps, home, fs_ok, restart_ok)
        ins == JetBrainsIdeImage_install(id, un.apps, home, early_ok, restart_ok)
    IN IF un.result.kind # "Ok"
       THEN IdeStep("reinstall", ImageOps_reinstall(un.result, ins.result).result, un.apps)
       ELSE IdeStep("reinstall", ImageOps_reinstall(un.result, ins.result).result, ins.apps)

\* The directory names an IDE can have under apps.
IdeDirs(id) == {install_ide_dir(id), uninstall_ide_dir(id)}

InitIde ==
    /\ IdleBatch
    /\ IdleYear
    /\ IdleToolbox
    /\ IdleGo
    /\ IdleKey
    /\ IdleVsCode
    /\ IdleMain
    /\ IdleVersion
    /\ IdlePath
    /\ IdleUrl
    /\ IdleDownload
    /\ IdleHash
    /\ IdleGpg
    /\ IdleCmd
    /\ IdleLookup
    /\ home_set \in BOOLEAN
    /\ i_id \in JetBrainsIdeImageId
    /\ i_apps = {}
    /\ i_log = <<>>

IdeFrame ==
    UNCHANGED <<batchVars, urlVars, dlVars, hashVars, gpgVars, cmdVars, lookupVars, mainVars,
                versionVars, pathVars, vscodeVars, keyVars, goVars, toolboxVars, yearVars>>

\* The outside world did not make the operation fail.
Undisturbed(early_ok, fs_ok, restart_ok) == home_set /\ early_ok /\ fs_ok /\ restart_ok

IdeInstall ==
    /\ Len(i_log) < MaxIdeOps
    /\ \E early_ok \in BOOLEAN, restart_ok \in BOOLEAN :
        LET r == JetBrainsIdeImage_install(i_id, i_apps, home_set, early_ok, restart_ok) IN
        /\ i_apps' = r.apps
        /\ i_log' = Append(i_log, [step |-> r, undisturbed |-> Undisturbed(early_ok, TRUE, restart_ok)])
    /\ UNCHANGED i_id
    /\ IdeFrame

IdeUninstall ==
    /\ Len(i_log) < MaxIdeOps
    /\ \E fs_ok \in BOOLEAN, restart_ok \in BOOLEAN :
        LET r == JetBrainsIdeImage_uninstall(i_id, i_apps, home_set, fs_ok, restart_ok) IN
        /\ i_apps' = r.apps
        /\ i_log' = Append(i_log, [step |-> r, undisturbed |-> Undisturbed(TRUE, fs_ok, restart_ok)])
    /\ UNCHANGED i_id
    /\ IdeFrame

IdeReinstall ==
    /\ Len(i_log) < MaxIdeOps
    /\ \E early_ok \in BOOLEAN, fs_ok \in BOOLEAN, restart_ok \in BOOLEAN :
        LET r == JetBrainsIdeImage_reinstall(i_id, i_apps, home_set, early_ok, fs_ok, restart_ok)
        IN /\ i_apps' = r.apps
           /\ i_log' = Append(i_log, [step |-> r,
                                      undisturbed |-> Undisturbed(early_ok, fs_ok, restart_ok)])
    /\ UNCHANGED i_id
    /\ IdeFrame

NextIde == IdeInstall \/ IdeUninstall \/ IdeReinstall

SpecIde == InitIde /\ [][NextIde]_vars

\* What C23 states of the operations run so far.
UninstallUndoesInstall ==
    \A k \in 2..Len(i_log) :
          (/\ i_log[k - 1].step.op = "install"
           /\ i_log[k - 1].step.result.kind = "Ok"
           /\ i_log[k].step.op \in {"uninstall", "reinstall"}
           /\ i_log[k].undisturbed) =>
              /\ install_ide_dir(i_id) = uninstall_ide_dir(i_id)
              /\ i_log[k].step.result.kind = "Ok"
              /\ i_log[k].step.op = "uninstall" => i_log[k].step.apps \cap IdeDirs(i_id) = {}

\* C23: for IntelliJ IDEA, WebStorm and PyCharm the directory uninstall
\* removes is the directory install moved the IDE to; so an uninstall that
\* follows a successful install succeeds and leaves no directory of the IDE
\* under apps, and a reinstall that follows a successful install succeeds.
C23_UninstallRemovesWhatInstallMoved == UninstallUndoesInstall

\* The same for the IDEs whose package name is their image id.
UninstallUndoesInstallButForIntelliJ ==
    i_id # "IntelliJIdea" => UninstallUndoesInstall

\* An undisturbed uninstall has followed a successful install of WebStorm.
UninstallAfterInstallOfWebStorm ==
    /\ i_id = "WebStorm"
    /\ Len(i_log) = 2
    /\ i_log[1].step.op = "install" /\ i_log[1].step.result.kind = "Ok"
    /\ i_log[2].step.op = "uninstall" /\ i_log[2].undisturbed
    /\ i_apps = {}

(***************************************************************************)
(* VsCodeImage (image/desktop.rs, mod vscode): the fetch URL redirects to  *)
(* the file of the latest version; install asks for the redirect target    *)
(* and downloads from it.                                                  *)
(***************************************************************************)
\* haystack.contains(needle) of str
Contains(haystack, needle) ==
    \E i \in 1..(Len(haystack) - Len(needle) + 1) :
        SubSeq(haystack, i, i + Len(needle) - 1) = needle

\* format!("/code_{original_version}")
expected_name(version) == <<"/", "c", "o", "d", "e", "_">> \o version

ActualOk(url, integrity) == [kind |-> "Ok", url |-> url, integrity |-> integrity]

ActualErr(url) == [kind |-> "Err", url |-> url, integrity |-> NoIntegrity]

\* DownloadRequest::new(&final_url.to_string(), integrity).map_err(..)?
actual_req(final, integrity) ==
    IF DownloadRequest_new(final, integrity).kind = "Ok"
    THEN ActualOk(final, DownloadRequest_new(final, integrity).integrity)
    ELSE ActualErr(final)

\* get_actual_download_request that takes the latest version whatever the
\* configuration says.
get_actual_download_request_always_latest(final, version, use_latest, integrity) ==
    IF final = <<>> THEN ActualErr(final)
    ELSE IF Contains(final, expected_name(version)) THEN actual_req(final, integrity)
    ELSE actual_req(final, NoIntegrity)

\* VsCodeImage::get_actual_download_request; final is <<>> when the client
\* cannot be built or the HEAD request fails.
get_actual_download_request(final, version, use_latest, integrity) ==
    IF final = <<>> THEN ActualErr(final)
    ELSE IF Contains(final, expected_name(version)) THEN actual_req(final, integrity)
    ELSE IF use_latest THEN actual_req(final, NoIntegrity)
    ELSE ActualErr(final)

VsVersions == {<<"1", ".", "9">>, <<"1", ".", "8">>}

VsHosts == {Str_https \o <<":", "/", "/", "e">>, Str_http \o <<":", "/", "/", "e">>}

VsPaths ==
    {<<"/", "c", "o", "d", "e", "_">> \o v \o s : v \in VsVersions, s \in {<<"-", "1">>, <<"0">>}}
        \cup {<<"/", "s", "t", "a", "b", "l", "e">>, <<>>}

FinalUrls == {h \o p : h \in VsHosts, p \in VsPaths} \cup {<<>>}

InitVsCode ==
    /\ IdleBatch
    /\ IdleYear
    /\ IdleToolbox
    /\ IdleGo
    /\ IdleKey
    /\ IdleMain
    /\ IdleVersion
    /\ IdlePath
    /\ IdleIde
    /\ IdleUrl
    /\ IdleDownload
    /\ IdleHash
    /\ IdleGpg
    /\ IdleCmd
    /\ IdleLookup
    /\ home_set = TRUE
    /\ a_final \in FinalUrls
    /\ a_version \in VsVersions
    /\ a_use_latest \in BOOLEAN
    /\ a_integrity \in RecipeIntegrities("vscode")
    /\ a_pc = "start"
    /\ a_req = NoActualRequest

VsCodeFrame ==
    /\ UNCHANGED <<a_final, a_version, a_use_latest, a_integrity>>
    /\ UNCHANGED <<batchVars, urlVars, dlVars, hashVars, gpgVars, cmdVars, lookupVars, mainVars,
                   versionVars, pathVars, ideVars, keyVars, goVars, toolboxVars, yearVars>>

\* TmpWorkingDir::new().map_err(..)?
VsNewTmp ==
    /\ a_pc = "start"
    /\ a_pc' \in {"tmp", "failed"}
    /\ UNCHANGED a_req
    /\ VsCodeFrame

\* let req = self.get_actual_download_request().map_err(..)?
VsActualRequest ==
    /\ a_pc = "tmp"
    /\ a_req' = get_actual_download_request(a_final, a_version, a_use_latest, a_integrity)
    /\ a_pc' = IF a_req'.kind = "Ok" THEN "requested" ELSE "failed"
    /\ VsCodeFrame

\* Downloader::from(req, &tmp).download_blocking()
VsDownload ==
    /\ a_pc = "requested"
    /\ a_pc' = "downloading"
    /\ UNCHANGED a_req
    /\ VsCodeFrame

NextVsCode == VsNewTmp \/ VsActualRequest \/ VsDownload

SpecVsCode == InitVsCode /\ [][NextVsCode]_vars

NamesVersion == Contains(a_final, expected_name(a_version))

\* C24: the request VsCode install downloads with keeps the SHA-256 policy
\* of vscode.json whenever the redirect target contains /code_<version>; it
\* has no integrity check only when the target lacks the version and
\* use_latest_if_version_is_old is true; when the target lacks the version
\* and the flag is false the install fails before any download; and every
\* request it builds has passed the https-only check of DownloadRequest::new.
C24_HashPolicyKeptForTheConfiguredVersion ==
    /\ (a_req.kind = "Ok" /\ NamesVersion) =>
           a_req.integrity = a_integrity /\ a_integrity.policy = "Hash"
    /\ (a_req.kind = "Ok" /\ a_req.integrity.policy = "None") =>
           ~NamesVersion /\ a_use_latest
    /\ (a_pc \notin {"start", "tmp"} /\ ~NamesVersion /\ ~a_use_latest) =>
           a_req.kind # "Ok" /\ a_pc = "failed"
    /\ a_pc = "downloading" =>
           /\ a_req.kind = "Ok"
           /\ a_req.url = a_final
           /\ UrlParse(a_req.url).ok /\ UrlParse(a_req.url).scheme = Str_https
    /\ (a_req.kind = "Err" \/ a_pc = "failed") => a_pc # "downloading"

\* The download runs without a check: the redirect target is for another
\* version and the configuration allows the latest one.
C24_Witness ==
    /\ a_pc = "downloading"
    /\ ~NamesVersion
    /\ a_use_latest
    /\ a_req.integrity = NoIntegrity

\* The download runs with the hash of vscode.json.
VsDownloadsWithHash ==
    /\ a_pc = "downloading"
    /\ NamesVersion
    /\ a_req.integrity.policy = "Hash"

\* The install stopped at the request: the target is for another version.
VsRefusesLatest ==
    /\ a_pc = "failed"
    /\ a_req.kind = "Err"
    /\ a_final # <<>> /\ UrlParse(a_final).scheme = Str_https
    /\ ~NamesVersion

(***************************************************************************)
(* Integrity::check of Integrity::Gpg(key) (download.rs) with              *)
(* GpgKey::install (download/gpg.rs): key.install()?; key.verify(file).    *)
(* curl -f writes nothing when the fetch fails, and gpg --import fails on  *)
(* an input without a key.                                                 *)
(***************************************************************************)
CurlImport == "bash -c curl --proto '=https' --tlsv1.2 -sSf <url> | gpg --import -"

GpgFingerprint == "gpg --fingerprint"

GpgVerify == "gpg --verify <file>"

\* The keys a key server can hand out, by fingerprint as gpg prints it.
KeyFingerprints == {<<"A", " ", "B">>, <<"B", " ", "A">>}

ExpectedFingerprints == {<<"A", "B">>, <<"A", " ", "B">>, <<"B", "A">>, <<"B", "B">>}

Keyrings ==
    {<<>>} \cup {<<a>> : a \in KeyFingerprints}
        \cup {r \in KeyFingerprints \X KeyFingerprints : r[1] # r[2]}

InKeyring(keyring, key) == \E i \in 1..Len(keyring) : keyring[i] = key

\* gpg --import: a key that is new is added to the keyring.
gpg_import(keyring, key) == IF InKeyring(keyring, key) THEN keyring ELSE Append(keyring, key)

RECURSIVE gpg_fingerprint_output(_)
\* The stdout of gpg --fingerprint with no key argument: every key.
gpg_fingerprint_output(keyring) ==
    IF keyring = <<>> THEN <<>>
    ELSE <<"pub">> \o Head(keyring) \o gpg_fingerprint_output(Tail(keyring))

\* A listing of the key that was just fetched only.
gpg_fingerprint_output_of(keyring, key) ==
    IF InKeyring(keyring, key) THEN gpg_fingerprint_output(<<key>>) ELSE <<>>

\* What check_key_fingerprint reads: the listing of the keyring.
listed_keys(keyring, key) == gpg_fingerprint_output(keyring)

\* key.install()? with the error dropped.
after_key_install_ignored(res) == "verify"

\* key.install()?
after_key_install(res) == IF res.kind = "Ok" THEN "verify" ELSE "done"

InitKey ==
    /\ IdleBatch
    /\ IdleYear
    /\ IdleToolbox
    /\ IdleGo
    /\ IdleMain
    /\ IdleVersion
    /\ IdlePath
    /\ IdleIde
    /\ IdleVsCode
    /\ IdleUrl
    /\ IdleDownload
    /\ IdleHash
    /\ IdleGpg
    /\ IdleCmd
    /\ IdleLookup
    /\ home_set = TRUE
    /\ k_expected \in ExpectedFingerprints
    /\ k_served \in KeyFingerprints \cup {<<>>}
    /\ k_keyring \in Keyrings
    /\ k_pc = "import"
    /\ k_calls = <<>>
    /\ k_import = None
    /\ k_list = None
    /\ k_install = CheckNone
    /\ k_check = CheckNone

KeyFrame ==
    /\ UNCHANGED <<k_expected, k_served>>
    /\ UNCHANGED <<batchVars, urlVars, dlVars, hashVars, gpgVars, cmdVars, lookupVars, mainVars,
                   versionVars, pathVars, ideVars, vscodeVars, goVars, toolboxVars, yearVars>>

\* The result of install reaches check: `?` returns the error.
InstallReturns(res) ==
    /\ k_install' = res
    /\ k_pc' = after_key_install(res)
    /\ k_check' = IF after_key_install(res) = "done" THEN CheckErr(res.error) ELSE k_check

\* GpgKey::install: exec_cmd("bash", ["-c", curl_cmd]).map_err(..)?
KeyImport ==
    /\ k_pc = "import"
    /\ k_calls' = Append(k_calls, CurlImport)
    /\ \E exec \in ExecOutcomes :
        /\ k_served = <<>> => exec # "Ok"
        /\ k_import' = exec
        /\ IF exec = "Ok"
           THEN /\ k_keyring' = gpg_import(k_keyring, k_served)
                /\ k_pc' = "fingerprint"
                /\ UNCHANGED <<k_install, k_check>>
           ELSE /\ UNCHANGED k_keyring
                /\ InstallReturns(CheckErr(exec))
    /\ UNCHANGED k_list
    /\ KeyFrame

\* GpgKey::install: self.check_key_fingerprint()?
KeyCheckFingerprint ==
    /\ k_pc = "fingerprint"
    /\ k_calls' = Append(k_calls, GpgFingerprint)
    /\ \E exec \in ExecOutcomes :
        /\ k_list' = exec
        /\ InstallReturns(check_key_fingerprint(
               gpg_output_contains_fingerprint(k_expected, listed_keys(k_keyring, k_served)),
               exec))
    /\ UNCHANGED <<k_keyring, k_import>>
    /\ KeyFrame

\* Integrity::check: key.verify(file_path)
KeyVerify ==
    /\ k_pc = "verify"
    /\ k_calls' = Append(k_calls, GpgVerify)
    /\ k_check' \in VerifyOutcomes
    /\ k_pc' = "done"
    /\ UNCHANGED <<k_keyring, k_import, k_list, k_install>>
    /\ KeyFrame

NextKey == KeyImport \/ KeyCheckFingerprint \/ KeyVerify

SpecKey == InitKey /\ [][NextKey]_vars

Called(cmd) == \E i \in 1..Len(k_calls) : k_calls[i] = cmd

\* Some key of the keyring has the expected fingerprint, whitespace aside.
SomeKeyMatches ==
    \E i \in 1..Len(k_keyring) : gpg_output_contains_fingerprint(k_expected, k_keyring[i])

\* C25: for a Gpg policy Integrity::check installs the key (the https-only
\* curl piped into gpg --import, then the fingerprint listing) before it
\* verifies the signature; when the import command fails or the fingerprint
\* is not confirmed, gpg --verify is never run and check returns an error.
C25_KeyInstalledBeforeVerification ==
    /\ Called(GpgVerify) =>
           /\ SubSeq(k_calls, 1, 3) = <<CurlImport, GpgFingerprint, GpgVerify>>
           /\ Len(k_calls) = 3
           /\ k_import = "Ok"
           /\ k_install = CheckOk(TRUE)
    /\ k_pc = "verify" => k_calls = <<CurlImport, GpgFingerprint>> /\ k_install = CheckOk(TRUE)
    /\ (k_served = <<>> \/ k_import \notin {None, "Ok"} \/ k_install.kind = "Err") =>
           /\ ~Called(GpgVerify)
           /\ k_pc \in {"import", "done"}
           /\ k_pc = "done" => k_check.kind = "Err"
    /\ (k_list # None /\ ~SomeKeyMatches) => k_install.kind = "Err"

\* The key was imported, its fingerprint is not the expected one, and check
\* returned the error without a verification.
C25_Witness ==
    /\ k_pc = "done"
    /\ k_import = "Ok"
    /\ k_list = "Ok"
    /\ k_calls = <<CurlImport, GpgFingerprint>>
    /\ k_check = CheckErr("Key fingerprint does not exist in GPG")

\* The signature was verified after the key was installed.
KeyVerifiedAfterInstall ==
    /\ k_pc = "done"
    /\ k_calls = <<CurlImport, GpgFingerprint, GpgVerify>>
    /\ k_check = CheckOk(TRUE)

\* The import ran before the listing, and nothing removes a key.
ImportedKeyStays ==
    /\ k_import = "Ok" => InKeyring(k_keyring, k_served)
    /\ k_list # None => k_import = "Ok" /\ SubSeq(k_calls, 1, 2) = <<CurlImport, GpgFingerprint>>

\* C26 as stated: install has succeeded exactly when the import command
\* succeeded and some key of the keyring after the import matches the
\* expected fingerprint; the import comes before the fingerprint check and
\* the imported key stays in the keyring when the check fails.
C26_InstallOkIffImportedAndSomeKeyMatches ==
    /\ ImportedKeyStays
    /\ k_install # CheckNone =>
           (k_install.kind = "Ok" <=> (k_import = "Ok" /\ SomeKeyMatches))

\* C26, amended: install has succeeded exactly when the import command
\* succeeded, gpg --fingerprint ran and exited successfully, and some key of
\* the keyring after the import matches the expected fingerprint; the import
\* comes before the fingerprint check and the imported key stays in the
\* keyring when the check fails.
C26_InstallOkIffImportedListedAndSomeKeyMatches ==
    /\ ImportedKeyStays
    /\ k_install # CheckNone =>
           (k_install.kind = "Ok" <=> (k_import = "Ok" /\ k_list = "Ok" /\ SomeKeyMatches))

\* install succeeded on a key that was in the keyring before, while the
\* fetched key has another fingerprint and is in the keyring too.
C26_Witness ==
    /\ k_install = CheckOk(TRUE)
    /\ k_expected = <<"A", "B">>
    /\ k_served = <<"B", " ", "A">>
    /\ k_keyring = <<<<"A", " ", "B">>, <<"B", " ", "A">>>>

\* The check failed and the fetched key is in the keyring.
FailedCheckKeepsTheKey ==
    /\ k_install = CheckErr("Key fingerprint does not exist in GPG")
    /\ k_keyring = <<k_served>>

(***************************************************************************)
(* GoImage (image/server.rs, mod go): install removes /usr/local/go,       *)
(* downloads and unpacks the archive and appends to ~/.profile; uninstall  *)
(* removes /usr/local/go and deletes lines of ~/.profile with sed.  A line *)
(* of the profile is a sequence of pieces of text; the file ends with a    *)
(* line terminator or its last line is open.                               *)
(***************************************************************************)
MaxGoOps == 3

GolangMarker == "# Golang"

GolangExport == "export PATH=\"$PATH:/usr/local/go/bin\""

UserLine == <<"alias ll='ls -l'">>

\* writeln!(prof, text) on a file opened with append(true).
writeln(profile, text) ==
    IF profile.lines = <<>> \/ profile.terminated
    THEN [lines |-> Append(profile.lines, text), terminated |-> TRUE]
    ELSE [lines |-> [profile.lines EXCEPT ![Len(profile.lines)] = @ \o text],
          terminated |-> TRUE]

\* The three writeln! of install, the first n of them done.
RECURSIVE append_go_lines(_, _, _)
append_go_lines(profile, texts, n) ==
    IF n = 0 \/ texts = <<>> THEN profile
    ELSE append_go_lines(writeln(profile, Head(texts)), Tail(texts), n - 1)

GoProfileLines == << <<GolangMarker>>, <<GolangExport>>, <<>> >>

\* The addresses of the sed script: /# Golang/ and the PATH export.
GoLine(line) == Contains(line, <<GolangMarker>>) \/ Contains(line, <<GolangExport>>)

NotGoLine(line) == ~GoLine(line)

\* sed -i '/# Golang/d; /export PATH="\$PATH:\/usr\/local\/go\/bin"/d' ~/.profile
sed_delete(profile) ==
    [lines |-> SelectSeq(profile.lines, NotGoLine),
     terminated |-> IF profile.lines # <<>> /\ GoLine(profile.lines[Len(profile.lines)])
                    THEN TRUE ELSE profile.terminated]

\* The fallible steps of install in the order of the code.
InstallStages ==
    <<"rm", "tmp", "download", "unpack", "home", "open", "write1", "write2", "write3", "verify">>

StageIndex(stage) ==
    IF stage = "none" THEN Len(InstallStages) + 1
    ELSE CHOOSE i \in 1..Len(InstallStages) : InstallStages[i] = stage

\* The stage at which install leaves: the one that fails, or the unwrap of
\* HOME when the variable is not set.
install_stop(home, fail) ==
    IF ~home /\ StageIndex(fail) > StageIndex("home") THEN StageIndex("home")
    ELSE StageIndex(fail)

GoStep(op, result, dir, profile, steps) ==
    [op |-> op, result |-> result, dir |-> dir, profile |-> profile, steps |-> steps]

\* /usr/local/go when install leaves at stage stop.
go_dir_after(dir, stop, partial) ==
    IF stop = StageIndex("rm") THEN dir
    ELSE IF stop < StageIndex("unpack") THEN "absent"
    ELSE IF stop = StageIndex("unpack") THEN (IF partial THEN "partial" ELSE "absent")
    ELSE "new"

\* GoImage::install; fail names the step that fails, partial tells whether a
\* failed tar left files behind.
GoImage_install(dir, profile, home, fail, partial) ==
    LET stop == install_stop(home, fail)
        written == IF stop <= StageIndex("write1") THEN 0
                   ELSE IF stop > StageIndex("write3") THEN 3
                   ELSE stop - StageIndex("write1")
        result == IF stop > Len(InstallStages) THEN Ok
                  ELSE IF stop = StageIndex("home") /\ ~home THEN Panic
                  ELSE Err(InstallStages[stop])
    IN GoStep("install", result, go_dir_after(dir, stop, partial),
              append_go_lines(profile, GoProfileLines, written),
              SubSeq(InstallStages, 1, IF stop > Len(InstallStages) THEN Len(InstallStages) ELSE stop))

\* GoImage::uninstall
GoImage_uninstall(dir, profile, home, fail) ==
    IF fail = "rm" THEN GoStep("uninstall", Err("rm"), dir, profile, <<"rm">>)
    ELSE IF ~home
         THEN GoStep("uninstall", Err("environment variable not found"), "absent", profile,
                     <<"rm", "home">>)
    ELSE IF fail = "sed"
         THEN GoStep("uninstall", Err("sed"), "absent", profile, <<"rm", "home", "sed">>)
    ELSE GoStep("uninstall", Ok, "absent", sed_delete(profile), <<"rm", "home", "sed">>)

GoProfiles ==
    {NoProfile,
     [lines |-> <<UserLine>>, terminated |-> TRUE],
     [lines |-> <<UserLine>>, terminated |-> FALSE],
     [lines |-> <<UserLine>> \o GoProfileLines, terminated |-> TRUE],
     [lines |-> << <<"export GOPATH=~/go ", GolangMarker>>, UserLine >>, terminated |-> TRUE]}

InitGo ==
    /\ IdleBatch
    /\ IdleYear
    /\ IdleToolbox
    /\ IdleMain
    /\ IdleVersion
    /\ IdlePath
    /\ IdleIde
    /\ IdleVsCode
    /\ IdleKey
    /\ IdleUrl
    /\ IdleDownload
    /\ IdleHash
    /\ IdleGpg
    /\ IdleCmd
    /\ IdleLookup
    /\ home_set \in BOOLEAN
    /\ go_dir \in {"absent", "previous"}
    /\ go_profile0 \in GoProfiles
    /\ go_profile = go_profile0
    /\ go_log = <<>>

GoFrame ==
    /\ UNCHANGED go_profile0
    /\ UNCHANGED <<batchVars, urlVars, dlVars, hashVars, gpgVars, cmdVars, lookupVars, mainVars,
                   versionVars, pathVars, ideVars, vscodeVars, keyVars, toolboxVars, yearVars>>

GoDone(r) ==
    /\ go_dir' = r.dir
    /\ go_profile' = r.profile
    /\ go_log' = Append(go_log, [op |-> r.op, kind |-> r.result.kind, steps |-> r.steps,
                                 before |-> go_dir, after |-> r.dir,
                                 wrote |-> Len(r.steps) > StageIndex("write3")])

\* The steps that return an error, and none of them.
GoInstallFailures ==
    ({InstallStages[i] : i \in 1..Len(InstallStages)} \ {"home"}) \cup {"none"}

GoInstallOp ==
    /\ Len(go_log) < MaxGoOps
    /\ \E fail \in GoInstallFailures, partial \in BOOLEAN :
        /\ partial => fail = "unpack"
        /\ GoDone(GoImage_install(go_dir, go_profile, home_set, fail, partial))
    /\ GoFrame

GoUninstallOp ==
    /\ Len(go_log) < MaxGoOps
    /\ \E fail \in {"none", "rm", "sed"} :
        GoDone(GoImage_uninstall(go_dir, go_profile, home_set, fail))
    /\ GoFrame

NextGo == GoInstallOp \/ GoUninstallOp

SpecGo == InitGo /\ [][NextGo]_vars

Position(steps, stage) ==
    IF \E i \in 1..Len(steps) : steps[i] = stage
    THEN CHOOSE i \in 1..Len(steps) : steps[i] = stage
    ELSE 0

\* The install of entry e went past the removal of /usr/local/go and then
\* left before its end.
FailedAfterRemoval(e) == e.op = "install" /\ e.kind # "Ok" /\ Len(e.steps) > 1

\* The removal comes first and what install did stays as it is.
NothingRolledBack(e) ==
    /\ e.op = "install" => e.steps[1] = "rm"
    /\ (e.op = "install" /\ Position(e.steps, "download") > 0) =>
           Position(e.steps, "rm") < Position(e.steps, "download")
    /\ (e.op = "install" /\ Position(e.steps, "unpack") > 0) =>
           Position(e.steps, "rm") < Position(e.steps, "unpack")
    /\ FailedAfterRemoval(e) =>
           /\ e.after # "previous"
           /\ (Len(e.steps) > StageIndex("unpack")) => (e.after = "new")

\* C27: install removes /usr/local/go before it downloads and unpacks, and
\* an install that fails at the download, the unpacking or the profile update
\* returns an error with the previous tree removed and, when the unpacking
\* succeeded, the new tree in place.
C27_GoTreeRemovedFirstAndNeverRestored ==
    \A k \in 1..Len(go_log) :
        /\ NothingRolledBack(go_log[k])
        /\ FailedAfterRemoval(go_log[k]) => go_log[k].kind = "Err"

\* The same, with the panic of the HOME unwrap counted as a failure.
GoTreeRemovedFirstAndNeverRestored ==
    \A k \in 1..Len(go_log) : NothingRolledBack(go_log[k])

\* An install failed at the download with a previous tree removed.
GoPreviousTreeLost ==
    /\ Len(go_log) = 1
    /\ go_log[1].op = "install" /\ go_log[1].kind = "Err"
    /\ go_log[1].steps = <<"rm", "tmp", "download">>
    /\ go_log[1].before = "previous"
    /\ go_dir = "absent"

RECURSIVE EmptyLines(_)
EmptyLines(n) == IF n = 0 THEN <<>> ELSE << <<>> >> \o EmptyLines(n - 1)

Count(P(_)) == Cardinality({k \in 1..Len(go_log) : P(go_log[k])})

CompletedInstall(e) == e.op = "install" /\ e.kind = "Ok"

WroteInstall(e) == e.op = "install" /\ e.wrote

\* The lines of the first profile that the sed script does not address.
OtherLines == SelectSeq(go_profile0.lines, NotGoLine)

LastUninstalled ==
    /\ go_log # <<>>
    /\ go_log[Len(go_log)].op = "uninstall"
    /\ go_log[Len(go_log)].kind = "Ok"

\* install appends the three lines, whatever the profile holds.
InstallAppendsThreeLines ==
    (go_log # <<>> /\ CompletedInstall(go_log[Len(go_log)])) =>
        /\ Len(go_profile.lines) >= 3
        /\ SubSeq(go_profile.lines, Len(go_profile.lines) - 1, Len(go_profile.lines))
               = << <<GolangExport>>, <<>> >>
        /\ Contains(go_profile.lines[Len(go_profile.lines) - 2], <<GolangMarker>>)

\* C28 as stated: install appends the marker, the export and an empty line
\* without looking at the profile, and after a sequence of installs and
\* uninstalls that ends with an uninstall the profile has no marker or
\* export line and is its other lines followed by one empty line per
\* completed install.
C28_ProfileGrowsByOneEmptyLinePerInstall ==
    /\ InstallAppendsThreeLines
    /\ LastUninstalled =>
           /\ \A i \in 1..Len(go_profile.lines) : NotGoLine(go_profile.lines[i])
           /\ go_profile.lines = OtherLines \o EmptyLines(Count(CompletedInstall))

\* The same for a profile whose last line is terminated, with one empty line
\* per install that wrote its three lines, whether or not it then returned
\* Ok.
ProfileGrowsByOneEmptyLinePerWrittenBlock ==
    /\ InstallAppendsThreeLines
    /\ LastUninstalled =>
           /\ \A i \in 1..Len(go_profile.lines) : NotGoLine(go_profile.lines[i])
           /\ go_profile0.terminated =>
                  go_profile.lines = OtherLines \o EmptyLines(Count(WroteInstall))

\* Two installs and an uninstall: two empty lines after the user's line.
TwoInstallsThenUninstall ==
    /\ Len(go_log) = 3
    /\ CompletedInstall(go_log[1]) /\ CompletedInstall(go_log[2])
    /\ LastUninstalled
    /\ go_profile0.lines = <<UserLine>>
    /\ go_profile.lines = <<UserLine, <<>>, <<>> >>

(***************************************************************************)
(* JetBrainsToolboxImage::uninstall (image/desktop.rs): the autostart      *)
(* file, the entries of ~/.local/share/JetBrains/Toolbox but apps, and the *)
(* applications desktop file are removed, each removal with `?`.           *)
(***************************************************************************)
AppsEntry == "apps"

AutostartFile == ".config/autostart/jetbrains-toolbox.desktop"

ApplicationsFile == ".local/share/applications/jetbrains-toolbox.desktop"

ToolboxEntries == {AppsEntry, "bin", "toolbox.log"}

\* entry.is_dir()
is_dir(entry) == entry \in {AppsEntry, "bin"}

\* The entries of the directory with none left out.
toolbox_entries_unfiltered(listed) == listed

\* .filter(|path| *path != dont_delete), dont_delete = toolbox_dir.join("apps")
toolbox_entries(listed) == {entry \in listed : entry # AppsEntry}

ToolboxDirs ==
    {NoToolboxDir} \cup {[exists |-> TRUE, entries |-> es] : es \in SUBSET ToolboxEntries}

InitToolbox ==
    /\ IdleBatch
    /\ IdleYear
    /\ IdleMain
    /\ IdleVersion
    /\ IdlePath
    /\ IdleIde
    /\ IdleVsCode
    /\ IdleKey
    /\ IdleGo
    /\ IdleUrl
    /\ IdleDownload
    /\ IdleHash
    /\ IdleGpg
    /\ IdleCmd
    /\ IdleLookup
    /\ home_set \in BOOLEAN
    /\ t_autostart \in BOOLEAN
    /\ t_dir \in ToolboxDirs
    /\ t_apps \in {{}, {"idea"}}
    /\ AppsEntry \notin t_dir.entries => t_apps = {}
    /\ t_appfile \in BOOLEAN
    /\ t_init = [autostart |-> t_autostart, dir |-> t_dir, apps |-> t_apps, appfile |-> t_appfile]
    /\ t_pc = "home"
    /\ t_todo = {}
    /\ t_removed = <<>>
    /\ t_result = NoResult

ToolboxFrame ==
    /\ UNCHANGED t_init
    /\ UNCHANGED <<batchVars, urlVars, dlVars, hashVars, gpgVars, cmdVars, lookupVars, mainVars,
                   versionVars, pathVars, ideVars, vscodeVars, keyVars, goVars, yearVars>>

\* `?` on an Err: uninstall returns it.
ToolboxFails(e) ==
    /\ t_result' = Err(e)
    /\ t_pc' = "done"
    /\ UNCHANGED <<t_autostart, t_dir, t_apps, t_appfile, t_todo, t_removed>>

\* env::var("HOME").map(..).map_err(..)?
ToolboxHome ==
    /\ t_pc = "home"
    /\ IF home_set
       THEN /\ t_pc' = "autostart"
            /\ UNCHANGED <<t_autostart, t_dir, t_apps, t_appfile, t_todo, t_removed, t_result>>
       ELSE ToolboxFails("environment variable not found")
    /\ ToolboxFrame

\* fs::remove_file(toolbox_autostart_file).map_err(..)?
RemoveAutostart ==
    /\ t_pc = "autostart"
    /\ \E ok \in BOOLEAN :
        /\ ~t_autostart => ~ok
        /\ IF ok
           THEN /\ t_autostart' = FALSE
                /\ t_removed' = Append(t_removed, AutostartFile)
                /\ t_pc' = "read_dir"
                /\ UNCHANGED <<t_dir, t_apps, t_appfile, t_todo, t_result>>
           ELSE ToolboxFails("remove_file")
    /\ ToolboxFrame

\* fs::read_dir(toolbox_dir).map_err(..)?.filter_map(|res| res.ok())
\*     .map(|child| child.path()).filter(|path| *path != dont_delete)
ReadToolboxDir ==
    /\ t_pc = "read_dir"
    /\ \E ok \in BOOLEAN, unreadable \in SUBSET t_dir.entries :
        /\ ~t_dir.exists => ~ok
        /\ IF ok
           THEN /\ t_todo' = toolbox_entries(t_dir.entries \ unreadable)
                /\ t_pc' = "entries"
                /\ UNCHANGED <<t_autostart, t_dir, t_apps, t_appfile, t_removed, t_result>>
           ELSE ToolboxFails("read_dir")
    /\ ToolboxFrame

\* The body of `for entry in toolbox_entries`: remove_dir_all or remove_file.
RemoveEntry ==
    /\ t_pc = "entries"
    /\ \E entry \in t_todo, ok \in BOOLEAN :
        IF ok
        THEN /\ t_dir' = [t_dir EXCEPT !.entries = @ \ {entry}]
             /\ t_apps' = IF entry = AppsEntry THEN {} ELSE t_apps
             /\ t_todo' = t_todo \ {entry}
             /\ t_removed' = Append(t_removed, entry)
             /\ UNCHANGED <<t_autostart, t_appfile, t_pc, t_result>>
        ELSE ToolboxFails(IF is_dir(entry) THEN "remove_dir_all" ELSE "remove_file")
    /\ ToolboxFrame

\* fs::remove_file(apps_toolbox_file).map_err(..)?; Ok(())
RemoveApplicationsFile ==
    /\ t_pc = "entries"
    /\ t_todo = {}
    /\ \E ok \in BOOLEAN :
        /\ ~t_appfile => ~ok
        /\ IF ok
           THEN /\ t_appfile' = FALSE
                /\ t_removed' = Append(t_removed, ApplicationsFile)
                /\ t_result' = Ok
                /\ t_pc' = "done"
                /\ UNCHANGED <<t_autostart, t_dir, t_apps, t_todo>>
           ELSE ToolboxFails("remove_file")
    /\ ToolboxFrame

NextToolbox ==
    \/ ToolboxHome
    \/ RemoveAutostart
    \/ ReadToolboxDir
    \/ RemoveEntry
    \/ RemoveApplicationsFile

SpecToolbox == InitToolbox /\ [][NextToolbox]_vars

Removed(target) == \E i \in 1..Len(t_removed) : t_removed[i] = target

ToolboxRemovedButApps ==
    /\ t_result = Ok
    /\ t_init.dir.entries = ToolboxEntries
    /\ t_dir.entries = {AppsEntry}
    /\ t_apps = {"idea"}

(***************************************************************************)
(* YearSemVer (package.rs): year.major[.minor[.patch]], the year a u16 and *)
(* the other components u8.                                                *)
(***************************************************************************)
\* impl FromStr for YearSemVer
YearSemVer_from_str(s) ==
    LET parts == split(s, ".")
        len == Len(parts)
        get_optional_digit(index) ==
            IF index < len THEN parse_uint(parts[index + 1], U8_MAX) ELSE ParseIntOk(0)
    IN IF len \notin {2, 3, 4} THEN VersionErr("InvalidDigit")
       ELSE LET year == parse_uint(parts[1], U16_MAX)
                major == parse_uint(parts[2], U8_MAX)
                minor == get_optional_digit(2)
                patch == get_optional_digit(3)
            IN IF \E r \in {year, major, minor, patch} : r.kind = "Err"
               THEN VersionErr("DigitIntError")
               ELSE VersionOk(<<year.val, major.val, minor.val, patch.val>>, <<>>)

\* impl Display for YearSemVer
YearSemVer_to_string(v) ==
    uint_to_string(v.nums[1]) \o <<".">> \o uint_to_string(v.nums[2]) \o <<".">>
        \o uint_to_string(v.nums[3]) \o <<".">> \o uint_to_string(v.nums[4])

\* A simplified string that leaves out every zero after the major.
YearSemVer_to_simplified_string_without_zeros(v) ==
    uint_to_string(v.nums[1]) \o <<".">> \o uint_to_string(v.nums[2])
        \o (IF v.nums[3] # 0 THEN <<".">> \o uint_to_string(v.nums[3]) ELSE <<>>)
        \o (IF v.nums[4] # 0 THEN <<".">> \o uint_to_string(v.nums[4]) ELSE <<>>)

\* YearSemVer::to_simplified_string
YearSemVer_to_simplified_string(v) ==
    IF v.nums[4] = 0 /\ v.nums[3] > 0
    THEN uint_to_string(v.nums[1]) \o <<".">> \o uint_to_string(v.nums[2]) \o <<".">>
             \o uint_to_string(v.nums[3])
    ELSE IF v.nums[4] = 0 /\ v.nums[3] = 0
         THEN uint_to_string(v.nums[1]) \o <<".">> \o uint_to_string(v.nums[2])
         ELSE YearSemVer_to_string(v)

\* Spellings of one component: zero, small, above u8, a year, above u16.
YearComponents ==
    { <<"0">>, <<"1">>, <<"2", "5", "6">>, <<"2", "0", "2", "4">>, <<"6", "5", "5", "3", "6">> }

YearStrings ==
    {join(cs) : cs \in UNION {[1..n -> YearComponents] : n \in 1..(MaxComponents + 1)}}

InitYear ==
    /\ IdleBatch
    /\ IdleMain
    /\ IdleVersion
    /\ IdlePath
    /\ IdleIde
    /\ IdleVsCode
    /\ IdleKey
    /\ IdleGo
    /\ IdleToolbox
    /\ IdleUrl
    /\ IdleDownload
    /\ IdleHash
    /\ IdleGpg
    /\ IdleCmd
    /\ IdleLookup
    /\ home_set = TRUE
    /\ y_input \in YearStrings
    /\ y_pc = "input"
    /\ y_parsed = VersionNone
    /\ y_simplified = <<>>
    /\ y_full = <<>>
    /\ y_reparsed = VersionNone

YearFrame ==
    UNCHANGED <<batchVars, urlVars, dlVars, hashVars, gpgVars, cmdVars, lookupVars, mainVars,
                versionVars, pathVars, ideVars, vscodeVars, keyVars, goVars, toolboxVars>>

\* Deserialize: visit_str calls YearSemVer::from_str.
ParseYear ==
    /\ y_pc = "input"
    /\ y_parsed' = YearSemVer_from_str(y_input)
    /\ y_pc' = "parsed"
    /\ UNCHANGED <<y_input, y_simplified, y_full, y_reparsed>>
    /\ YearFrame

\* to_simplified_string() and to_string() of the value.
RenderYear ==
    /\ y_pc = "parsed"
    /\ y_parsed.kind = "Ok"
    /\ y_simplified' = YearSemVer_to_simplified_string(y_parsed)
    /\ y_full' = YearSemVer_to_string(y_parsed)
    /\ y_pc' = "rendered"
    /\ UNCHANGED <<y_input, y_parsed, y_reparsed>>
    /\ YearFrame

\* from_str of the simplified string.
ReparseYear ==
    /\ y_pc = "rendered"
    /\ y_reparsed' = YearSemVer_from_str(y_simplified)
    /\ y_pc' = "reparsed"
    /\ UNCHANGED <<y_input, y_parsed, y_simplified, y_full>>
    /\ YearFrame

NextYear == ParseYear \/ RenderYear \/ ReparseYear

SpecYear == InitYear /\ [][NextYear]_vars

\* The i-th component of the input as a number, 0 when it is missing.
YearComponent(i) ==
    LET parts == split(y_input, ".") IN
    IF i <= Len(parts) THEN digits_value(parts[i]) ELSE 0

\* The input has 2, 3 or 4 components, the year within u16 and the others
\* within u8.
WellFormedYear ==
    LET parts == split(y_input, ".") IN
    /\ Len(parts) \in {2, 3, 4}
    /\ \A i \in 1..Len(parts) :
          /\ parts[i] # <<>>
          /\ \A j \in 1..Len(parts[i]) : IsDigit(parts[i][j])
          /\ digits_value(parts[i]) <= (IF i = 1 THEN U16_MAX ELSE U8_MAX)

YearMajorOnly ==
    /\ y_pc = "reparsed"
    /\ y_input = <<"2", "0", "2", "4", ".", "1", ".", "0", ".", "0">>
    /\ y_simplified = <<"2", "0", "2", "4", ".", "1">>
    /\ y_full = y_input

\* A string of five components is rejected.
FiveComponentsRejected ==
    /\ y_pc = "parsed"
    /\ Len(split(y_input, ".")) = 5
    /\ y_parsed.kind = "Err"

(***************************************************************************)
(* Properties of the batch executor.                                       *)
(***************************************************************************)
\* The positions of the input whose exec call did not succeed.
FailingPositions == {i \in 1..Len(attempts) : attempts[i].result.kind # "Ok"}

\* C1: once the batch over N identifiers has stopped, with K of them failed,
\* execute has produced a report that counts N-K successes and K failures, so
\* every identifier is counted once, and it returned an error exactly when
\* K > 0.
C1_ReportCountsConserved ==
    bpc # "fold" =>
        LET N == Len(images)
            K == Cardinality(FailingPositions)
        IN /\ ok_num = N - K
           /\ Len(failed) = K
           /\ ok_num + Len(failed) = N
           /\ (batch_result = "Err") <=> (K > 0)
           /\ (batch_result = "Ok") <=> (K = 0)

\* The same for the batches that return: no exec call panicked.
ReportCountsConservedOnReturn ==
    bpc = "done" =>
        LET N == Len(images)
            K == Cardinality(FailingPositions)
        IN /\ Len(attempts) = N
           /\ ok_num = N - K
           /\ Len(failed) = K
           /\ (batch_result = "Err") <=> (K > 0)

\* C2: once the batch has stopped, whether it returned or not, the exec
\* closure has been called exactly once for every identifier of the input, in
\* input order: no failure of an earlier identifier keeps a later one from
\* being attempted, nothing is retried, duplicates are each processed.
C2_EveryIdAttemptedOnceInOrder ==
    /\ Len(attempts) <= Len(images)
    /\ \A i \in 1..Len(attempts) : attempts[i].id_raw = images[i]
    /\ (bpc # "fold") => (Len(attempts) = Len(images))

\* C3: reinstall calls uninstall first; install is called only after uninstall
\* returned Ok; if uninstall failed, install is not called and reinstall
\* returns uninstall's error; otherwise reinstall returns what install returned
\* and nothing else is called.
C3_ReinstallIsUninstallThenInstall ==
    operation = "Reinstall" =>
        \A i \in 1..Len(attempts) :
            LET a == attempts[i].result
                c == a.calls
            IN a.load = "Ok" =>
                /\ Len(c) >= 1
                /\ c[1].op = "uninstall"
                /\ \A j \in 1..Len(c) :
                      c[j].op = "install" =>
                          j = 2 /\ c[1].out.kind = "Ok"
                /\ (c[1].out.kind # "Ok" =>
                      /\ Len(c) = 1
                      /\ a.kind = c[1].out.kind
                      /\ a.cause = c[1].out.cause)
                /\ (c[1].out.kind = "Ok" =>
                      /\ Len(c) = 2
                      /\ c[2].op = "install"
                      /\ a.kind = c[2].out.kind
                      /\ a.cause = c[2].out.cause)

C3_Witness ==
    /\ operation = "Reinstall"
    /\ Len(attempts) = 2
    /\ attempts[1].result.load = "Ok"
    /\ attempts[1].result.calls = <<[op |-> "uninstall", out |-> Err("uninstall failed")]>>
    /\ attempts[2].result.load = "Ok"
    /\ Len(attempts[2].result.calls) = 2
    /\ attempts[2].result.calls[2].out = Err("install failed")

\* The identifiers requested by the attempts that returned Err, in input order.
FailedRequested ==
    LET F == SelectSeq(attempts, LAMBDA a : a.result.kind = "Err")
    IN [i \in 1..Len(F) |-> F[i].id_raw]

\* What C15 states of the batch.
FailureListNamesRequested ==
    /\ failed = FailedRequested
    /\ (bpc = "done" /\ batch_result = "Err") =>
          /\ printed[Len(printed)].line.kind = "BatchFail"
          /\ printed[Len(printed)].line.ids = FailedRequested
          /\ batch_error = [operation |-> Operation_to_string(operation),
                            ok_num |-> Len(attempts) - Len(FailedRequested),
                            failed_num |-> Len(FailedRequested)]

\* C15: for install, uninstall, reinstall and config, and for an unknown
\* identifier, a metadata file that does not load, an unsupported operation
\* and a failing operation alike, the entry pushed to the failure list is the
\* identifier string that was requested; so the failure summary lists the
\* requested identifiers that failed and the error execute returns states the
\* operation, the number of successes and the number of failures.
C15_FailureListHoldsRequestedIds == FailureListNamesRequested

\* The same for the three operations that resolve with load_image_ops.
FailureListHoldsRequestedIdsOfImageOps ==
    operation # "Config" => FailureListNamesRequested

\* The lines printed while the identifier at position i was processed.
LinesOf(i) == SelectSeq(printed, LAMBDA l : l.pos = i)

\* The line that reports the outcome of an attempt: the success message, or a
\* diagnostic that names the identifier and carries the cause.
ReportsOutcome(l, a) ==
    /\ l.line.id = a.id_raw
    /\ IF a.result.kind = "Ok"
       THEN l.line.kind = "Success"
       ELSE /\ l.line.kind \in {"LoadFail", "Fail", "Panic"}
            /\ l.line.cause = a.result.cause

\* What C16 states of the batch.
OutcomesPrintedAsTheyOccur ==
    /\ \A i \in 1..Len(attempts) :
          \E k \in 1..Len(LinesOf(i)) : ReportsOutcome(LinesOf(i)[k], attempts[i])
    /\ \A j, k \in 1..Len(printed) : j < k => printed[j].pos <= printed[k].pos
    /\ \A k \in 1..Len(printed) :
          printed[k].line.kind \in {"BatchOk", "BatchFail"} =>
              /\ k = Len(printed)
              /\ printed[k].pos = Len(images) + 1

\* C16: as soon as an identifier has been attempted, and so before the next
\* one is attempted and before the summary, its success message or its failure
\* diagnostic with the cause has been printed, for install, uninstall,
\* reinstall and config, whether resolution or the operation failed; the
\* summary is the last line, so no failure reaches it undiagnosed.
C16_EveryOutcomePrintedAsItOccurs == OutcomesPrintedAsTheyOccur

\* The same for the three operations that resolve with load_image_ops.
OutcomesPrintedAsTheyOccurForImageOps ==
    operation # "Config" => OutcomesPrintedAsTheyOccur

====
